---- MODULE Spec2Model ----
(***************************************************************************)
(* Model of the UDM download engine (package udm / main): the controller   *)
(* (StartDownload, Pause, Resume, Cancel), the multi-stream orchestrator   *)
(* with its chunk workers, the single-stream downloader, the chunk planner *)
(* and the chunk-file helpers of package ufs.                              *)
(*                                                                         *)
(* Sizes are real byte counts.  A response body is delivered in pieces     *)
(* ("slots"): every chunk (and the whole file on the single-stream path)   *)
(* is cut into ReadsPerChunk slots and one iteration of the read loop      *)
(* transfers the bytes up to the next slot boundary.  A file's content is  *)
(* the sequence of the pieces written to it: <<c, j>> is the data of slot  *)
(* j of chunk c (c = 0: the whole file), <<c, -j>> a hole of the same      *)
(* length filled with zero bytes.                                          *)
(***************************************************************************)
EXTENDS Integers, Sequences, FiniteSets, TLC

\* ------------------------------------------------------------------ bounds
MaxThreads == 2        \* largest Prefs.threadCount of a modelled job
ReadsPerChunk == 2     \* pieces in which a chunk's bytes are delivered
MaxN == 14             \* largest small file size given to the chunk planner
MaxK == 5              \* largest chunk count given to the chunk planner

\* ------------------------------------------------------- program constants
MinSizeForMultiStream == 10 * 1024 * 1024
SmallFilesize == 1024 * 1024
NilSettings == [loaded |-> FALSE, MinimumFileSize |-> 0]
ExampleMaxRetries == 3     \* Prefs.maxRetries of the example jobs

DOWNLOAD_QUEUED == "queued"
DOWNLOAD_IN_PROGRESS == "in_progress"
DOWNLOAD_PAUSED == "paused"
DOWNLOAD_COMPLETED == "completed"
DOWNLOAD_FAILED == "failed"
DOWNLOAD_STOPPED == "stopped"

\* The two StartDownload() calls of ResumeCapabilityExample.
Runs == {1, 2}

VARIABLES
    Prefs,               \* d.Prefs: [threadCount, maxRetries]
    ServerHeaders,       \* d.ServerHeaders: [Filesize, AcceptsRanges]
    Chunks,              \* d.Chunks
    fileInfo,            \* d.fileInfo: the name variant of FullPath, -1 = unset
    gateInit,            \* d.PauseControl # nil
    isPaused,            \* d.PauseControl.isPaused
    Status,              \* d.Status
    Error,               \* d.Error
    origin,              \* the origin server: [size, reportsSize, AcceptsRanges,
                         \* reachable, fault, faultChunk]
    files,               \* the file system: name -> [gen, data], gen = 0: no file
    nextGen,             \* next fresh inode number
    opc,                 \* per run: position of the orchestrator goroutine
    strategy,            \* per run: "none", "multi" or "single"
    ctxDone,             \* per run: the download context is cancelled
    chunkFileNames,      \* per run: name variant of the chunk files
    totalCompletedBytes, \* per run: the aggregate byte counter
    errorChan,           \* per run: buffered error channel
    wpc,                 \* per run and worker: position of the worker goroutine
    resumeOffset,        \* per run and worker: local resumeOffset (bytes)
    totalWritten,        \* per run and worker: local totalWritten (bytes)
    body,                \* per run and worker: slots left in the response body
    handle,              \* per run and worker: the open file, [gen, off, append]
    events,              \* callbacks raised so far
    cancelledFrom,       \* where the job was when Cancel() was first called:
                         \* "running" (a run past its initialisation and not yet
                         \* returned, status in_progress or paused), "other",
                         \* or "" before any call
    joinCause,           \* per run: why the workers' failure ended the run, if it did
    isStopped,           \* d.isStopped
    Callbacks,           \* d.Callbacks is set (not nil)
    UDMSettings,         \* the global settings instance (nil until loaded)
    cond,                \* PauseControl.cond: the <<run, worker>> waiting on it
    waitPc,              \* position of each caller of PauseController.WaitIfPaused
    mu,                  \* d.mu: the call that holds it, "" when free
    disposePc,           \* position of the call of Dispose()
    preSize,             \* per chunk: size of the partial file when the run began
    reqStart,            \* per run and worker: first byte of the range requested
    shortBody,           \* per run and worker: the body ended before the range did
    pausedWrites,        \* per run and worker: writes made since Pause() returned
    probe,               \* the HEAD probe: [pc, attempt, lastErr, data, err, urlValid, seen]
    headerChan,          \* per run: the header-analysis channel (idle, open, item, closed)
    monitor,             \* per run: the sampler goroutine (idle, running, returned)
    progressAfter        \* per run: the callbacks that had been raised when the sampler raised on-progress

vars == <<Prefs, ServerHeaders, Chunks, fileInfo, gateInit, isPaused, Status, Error,
          origin, files, nextGen, opc, strategy, ctxDone, chunkFileNames,
          totalCompletedBytes, errorChan, wpc, resumeOffset, totalWritten, body,
          handle, events, cancelledFrom, joinCause, isStopped, Callbacks, cond,
          waitPc, mu, disposePc, preSize, reqStart, shortBody, pausedWrites,
          UDMSettings, probe, headerChan, monitor, progressAfter>>

\* ------------------------------------------------------------ chunk planner
\* The planner without the remainder: every chunk gets the rounded-down share.
DivideChunks_NoRemainder(fileSize, chunkCount) ==
    LET chunkSize == fileSize \div chunkCount
    IN  [i \in 1..chunkCount |-> chunkSize]

\* The planner giving the remainder to the last chunk.
DivideChunks_RemainderLast(fileSize, chunkCount) ==
    LET chunkSize == fileSize \div chunkCount
        underFlowSize == fileSize - chunkCount * chunkSize
    IN  [i \in 1..chunkCount |->
            IF i = chunkCount THEN chunkSize + underFlowSize ELSE chunkSize]

\* DivideChunks: the sizes of the chunks, index i of the source is i + 1 here.
DivideChunks(fileSize, chunkCount) ==
    LET chunkSize == fileSize \div chunkCount
        totalAllocatedSize == chunkCount * chunkSize
        underFlowSize == fileSize - totalAllocatedSize
    IN  [i \in 1..chunkCount |->
            IF i - 1 = chunkCount - 2 THEN chunkSize + underFlowSize
                                      ELSE chunkSize]

RECURSIVE SumTo(_, _)
SumTo(sizes, n) == IF n = 0 THEN 0 ELSE sizes[n] + SumTo(sizes, n - 1)

\* initializeChunks: currentOffset before chunk i is the sum of the sizes before it.
initializeChunks(chunkSizes) ==
    [i \in 1..Len(chunkSizes) |->
        LET currentOffset == SumTo(chunkSizes, i - 1)
        IN  [Index |-> i - 1,
             Start |-> currentOffset,
             End |-> currentOffset + chunkSizes[i] - 1,
             Size |-> chunkSizes[i],
             IsCompleted |-> FALSE]]

\* getOptimalThreadCount: the user's thread count when set, else by file size.
getOptimalThreadCount(userThreadCount, fileSize) ==
    IF userThreadCount > 0 THEN userThreadCount
    ELSE IF fileSize < 10 * 1024 * 1024 THEN 2
    ELSE IF fileSize < 100 * 1024 * 1024 THEN 4
    ELSE IF fileSize < 1024 * 1024 * 1024 THEN 8
    ELSE 12

\* shouldUseMultiStream without its look at the user's thread count.
shouldUseMultiStream_AnyThreadCount(headers, threadCount) ==
    IF ~headers.AcceptsRanges THEN FALSE
    ELSE IF headers.Filesize <= 0 THEN FALSE
    ELSE IF headers.Filesize < MinSizeForMultiStream THEN FALSE
    ELSE TRUE

\* shouldUseMultiStream, on the stored server metadata and the user's thread count.
shouldUseMultiStream(headers, threadCount) ==
    IF ~headers.AcceptsRanges THEN FALSE
    ELSE IF headers.Filesize <= 0 THEN FALSE
    ELSE IF headers.Filesize < MinSizeForMultiStream THEN FALSE
    ELSE IF threadCount = 1 THEN FALSE
    ELSE TRUE

\* executeDownloadStrategy: the path the built-in selection takes.
executeDownloadStrategy(headers, threadCount) ==
    IF headers.AcceptsRanges /\ shouldUseMultiStream(headers, threadCount)
    THEN "multi" ELSE "single"

\* Settings.ShouldUseSingleStream
ShouldUseSingleStream(s, fileSize) ==
    IF s.MinimumFileSize <= 0 THEN fileSize < 10 * 1024 * 1024
    ELSE fileSize < s.MinimumFileSize

\* shouldUseMultiStream of the config-driven StartDownload: the size is left
\* to executeDownloadStrategy.
shouldUseMultiStreamConfig(headers, threadCount) ==
    IF ~headers.AcceptsRanges THEN FALSE
    ELSE IF headers.Filesize <= 0 THEN FALSE
    ELSE IF threadCount = 1 THEN FALSE
    ELSE TRUE

\* executeDownloadStrategy of the config-driven StartDownload.
executeDownloadStrategyConfig(settings, headers, threadCount) ==
    LET shouldUseSingle == IF settings # NilSettings
                           THEN ShouldUseSingleStream(settings, headers.Filesize)
                           ELSE FALSE
    IN  IF ~shouldUseSingle /\ headers.AcceptsRanges
              /\ shouldUseMultiStreamConfig(headers, threadCount)
        THEN "multi" ELSE "single"

\* ------------------------------------------------------- bytes and pieces
WorkerIds == 0..MaxThreads     \* 0: the single-stream loop, w >= 1: worker of chunk w - 1
Workers == 1..MaxThreads
Variants == 0..Cardinality(Runs)   \* n > 0: the file name with " (n)" appended

Abs(x) == IF x < 0 THEN -x ELSE x

\* Size in bytes of chunk c of the job (c = 0: the whole file), as planned
\* from the origin's size and the user's thread count.
PlannedSize(c) ==
    IF c = 0 THEN origin.size
    ELSE DivideChunks(origin.size,
                      getOptimalThreadCount(Prefs.threadCount, origin.size))[c]

\* Bytes delivered by the read that ends at slot boundary j of chunk c.
SlotLen(c, j) ==
    LET b == PlannedSize(c) \div ReadsPerChunk
    IN  IF j = ReadsPerChunk THEN PlannedSize(c) - (ReadsPerChunk - 1) * b ELSE b

RECURSIVE PrefixLen(_, _)
PrefixLen(c, j) == IF j = 0 THEN 0 ELSE SlotLen(c, j) + PrefixLen(c, j - 1)

RECURSIVE Bytes(_)
Bytes(data) ==
    IF data = <<>> THEN 0
    ELSE SlotLen(Head(data)[1], Abs(Head(data)[2])) + Bytes(Tail(data))

\* Number of whole slots that lie before byte offset off of chunk c.
SlotsBefore(c, off) == CHOOSE j \in 0..ReadsPerChunk : PrefixLen(c, j) = off

\* The bytes of the origin's resource from slot a to slot b of chunk c.
OriginData(c, a, b) == [n \in 1..(b - a + 1) |-> <<c, a + n - 1>>]

RECURSIVE OriginChunks(_)
OriginChunks(k) ==
    IF k = 0 THEN <<>> ELSE OriginChunks(k - 1) \o OriginData(k, 1, ReadsPerChunk)

\* ------------------------------------------------------------ file system
Absent == [gen |-> 0, data |-> <<>>]
FileExists(name) == files[name].gen # 0
FileSize(name) == Bytes(files[name].data)
NoHandle == [gen |-> 0, off |-> 0, append |-> FALSE]

\* os.Create: truncates an existing file (same inode), else makes a new one.
CreateFile(fs, gen, name) ==
    IF fs[name].gen # 0 THEN [fs EXCEPT ![name].data = <<>>]
    ELSE [fs EXCEPT ![name] = [gen |-> gen, data |-> <<>>]]

\* Inode numbers used by creating the files of names, which are taken in order.
RECURSIVE CreateAll(_, _, _)
CreateAll(fs, gen, names) ==
    IF names = <<>> THEN [fs |-> fs, gen |-> gen]
    ELSE LET n == Head(names)
         IN  CreateAll(CreateFile(fs, gen, n),
                       IF fs[n].gen = 0 THEN gen + 1 ELSE gen,
                       Tail(names))

\* A write of one piece through handle h: at the end of the file for a
\* handle opened with O_APPEND, else at the handle's own offset (a gap
\* before it reads as zero bytes).  A handle whose file was removed writes
\* to an inode that no name refers to.
WriteData(data, h, piece) ==
    IF h.append \/ h.off = Len(data) THEN Append(data, piece)
    ELSE IF h.off < Len(data) THEN [data EXCEPT ![h.off + 1] = piece]
    ELSE data \o [n \in 1..(h.off - Len(data)) |-> <<piece[1], -(Len(data) + n)>>]
              \o <<piece>>

WriteFile(fs, name, h, piece) ==
    IF fs[name].gen # 0 /\ fs[name].gen = h.gen
    THEN [fs EXCEPT ![name].data = WriteData(fs[name].data, h, piece)]
    ELSE fs

\* GenerateChunkFileNames: the chunk files of name variant u, in chunk order.
GenerateChunkFileNames(u, chunkCount) == [c \in 1..chunkCount |-> <<u, c>>]

\* GenerateChunkFiles: CreateFile for every chunk file name.
GenerateChunkFiles(fs, gen, names) == CreateAll(fs, gen, names)

\* CleanupChunkFiles: os.Remove of every chunk file, a missing one is ignored.
CleanupChunkFiles(fs, names) ==
    [n \in DOMAIN fs |-> IF \E i \in 1..Len(names) : names[i] = n THEN Absent ELSE fs[n]]

\* GenerateUniqueFilename: the first name variant no file has.
GenerateUniqueFilename(fs) == CHOOSE u \in Variants :
    /\ fs[<<u, 0>>].gen = 0
    /\ \A v \in Variants : v < u => fs[<<v, 0>>].gen # 0

\* The merge loop writing each chunk file in front of what the output holds.
RECURSIVE MergeFrom_Prepending(_, _, _, _)
MergeFrom_Prepending(fs, out, names, i) ==
    IF i > Len(names) THEN [fs |-> fs, ok |-> TRUE]
    ELSE IF fs[names[i]].gen = 0 THEN [fs |-> fs, ok |-> FALSE]
    ELSE MergeFrom_Prepending([fs EXCEPT ![out].data = fs[names[i]].data \o @,
                                         ![names[i]] = Absent],
                              out, names, i + 1)

\* MergeChunkFiles: the output is created (or truncated), then every chunk
\* file is appended and removed in order; a chunk file that cannot be opened
\* ends the merge with an error and leaves what was copied before it.
RECURSIVE MergeFrom(_, _, _, _)
MergeFrom(fs, out, names, i) ==
    IF i > Len(names) THEN [fs |-> fs, ok |-> TRUE]
    ELSE IF fs[names[i]].gen = 0 THEN [fs |-> fs, ok |-> FALSE]
    ELSE MergeFrom([fs EXCEPT ![out].data = @ \o fs[names[i]].data,
                              ![names[i]] = Absent],
                   out, names, i + 1)

\* The merge whose loop starts at the second partial file.
MergeChunkFiles_FromSecond(fs, gen, names, out) ==
    MergeFrom(CreateFile(fs, gen, out), out, names, 2)

MergeChunkFiles(fs, gen, names, out) ==
    MergeFrom(CreateFile(fs, gen, out), out, names, 1)

\* ------------------------------------------------------------------ set-up
FileSizes == {SmallFilesize, MinSizeForMultiStream, MinSizeForMultiStream + 1}
Names == Variants \X (0..MaxThreads)      \* <<u, 0>>: the output file, <<u, c>>: chunk file c - 1
Faults == {"none", "eof", "err"}

ProbedHeaders == [Filesize |-> IF origin.reportsSize THEN origin.size ELSE 0,
                  AcceptsRanges |-> origin.AcceptsRanges]

NilError == [kind |-> "nil", w |-> 0]
Err(kind, w) == [kind |-> kind, w |-> w]

\* What every specification starts from: a constructed Downloader, nothing started.
NoHeaders == [Filesize |-> 0, AcceptsRanges |-> FALSE]

\* ------------------------------------------------------------ the HEAD probe
\* GetServerData: maxRetries := 3.
maxRetries == 3

\* The status codes a HEAD request is answered with in the model.
Statuses == {200, 204, 399, 400, 404, 500}

\* What one attempt meets: http.NewRequest refuses the URL, client.Do fails
\* without a response, or the server answers with a status code.
ProbeOutcomes ==
    {[kind |-> "request", status |-> 0], [kind |-> "transport", status |-> 0]}
        \cup {[kind |-> "response", status |-> s] : s \in Statuses}

\* The nil error, an error of one attempt, and the error GetServerData wraps
\* the last one in: "failed after %d attempts: %v".
NilErr == [kind |-> "nil", attempts |-> 0, last |-> "nil"]
AttemptErr(kind) == [kind |-> kind, attempts |-> 0, last |-> "nil"]
FailedAfter(n, lastErr) == [kind |-> "failed", attempts |-> n, last |-> lastErr.kind]

\* tryGetServerData: one HEAD request.  `return nil, err` serves both the
\* failed client.Do and the answer with status >= 400, where err is nil.
tryGetServerData(o) ==
    IF o.kind = "request" THEN [data |-> FALSE, err |-> AttemptErr("request")]
    ELSE IF o.kind = "transport" THEN [data |-> FALSE, err |-> AttemptErr("transport")]
    ELSE IF o.status >= 400 THEN [data |-> FALSE, err |-> NilErr]
    ELSE [data |-> TRUE, err |-> NilErr]

\* The probe before GetServerData is called.
ProbeIdle == [pc |-> "idle", attempt |-> 0, lastErr |-> NilErr, data |-> FALSE,
              err |-> NilErr, urlValid |-> TRUE, seen |-> <<>>]

InitJob ==
    /\ progressAfter = [r \in Runs |-> {}]
    /\ monitor = [r \in Runs |-> "idle"]
    /\ headerChan = [r \in Runs |-> "idle"]
    /\ probe = ProbeIdle
    /\ Chunks = <<>>
    /\ fileInfo = -1
    /\ gateInit = FALSE
    /\ isPaused = FALSE
    /\ Status = ""
    /\ Error = NilError
    /\ nextGen = MaxThreads + 1
    /\ opc = [r \in Runs |-> "idle"]
    /\ strategy = [r \in Runs |-> "none"]
    /\ ctxDone = [r \in Runs |-> FALSE]
    /\ chunkFileNames = [r \in Runs |-> <<>>]
    /\ totalCompletedBytes = [r \in Runs |-> 0]
    /\ errorChan = [r \in Runs |-> <<>>]
    /\ wpc = [r \in Runs |-> [w \in WorkerIds |-> "idle"]]
    /\ resumeOffset = [r \in Runs |-> [w \in WorkerIds |-> 0]]
    /\ totalWritten = [r \in Runs |-> [w \in WorkerIds |-> 0]]
    /\ body = [r \in Runs |-> [w \in WorkerIds |-> <<>>]]
    /\ handle = [r \in Runs |-> [w \in WorkerIds |-> NoHandle]]
    /\ events = {}
    /\ cancelledFrom = ""
    /\ joinCause = [r \in Runs |-> "none"]
    /\ isStopped = FALSE
    /\ Callbacks = TRUE
    /\ cond = {}
    /\ waitPc = [g \in WorkerIds |-> "idle"]
    /\ mu = ""
    /\ disposePc = "idle"
    /\ preSize = [c \in Workers |-> -1]
    /\ reqStart = [r \in Runs |-> [w \in WorkerIds |-> -1]]
    /\ shortBody = [r \in Runs |-> [w \in WorkerIds |-> FALSE]]
    /\ pausedWrites = [r \in Runs |-> [w \in WorkerIds |-> 0]]

\* The origins a job is run against; a fault hits one chunk (0: the
\* single-stream body) of a reachable origin.  These origins answer a ranged
\* GET with 206 and the range whenever their HEAD advertised ranges.
Origins ==
    {o \in [size : FileSizes, reportsSize : BOOLEAN, AcceptsRanges : BOOLEAN,
            reachable : BOOLEAN, fault : Faults, faultChunk : WorkerIds,
            fullOnRange : {FALSE}] :
        /\ o.fault = "none" => o.faultChunk = 0
        /\ o.fault # "none" => o.reachable}

\* Origins whose HEAD advertises ranges and that answer a ranged GET with 200
\* and the whole body all the same.
OriginsIgnoringRange ==
    {[o EXCEPT !.fullOnRange = TRUE] : o \in {x \in Origins : x.AcceptsRanges}}

NoFiles == [n \in Names |-> Absent]

\* A job with no file of its own on disk, run against an origin that serves
\* every body whole.
Init ==
    /\ InitJob
    /\ UDMSettings = NilSettings
    /\ ServerHeaders = NoHeaders
    /\ Prefs \in [threadCount : 1..MaxThreads, maxRetries : {ExampleMaxRetries}]
    /\ origin \in Origins
    /\ origin.fault = "none"
    /\ files = NoFiles

\* The same job against any origin, the ones that cut a body short included;
\* the fault hits the single body or one of the chunks the job will plan.
InitFaults ==
    /\ InitJob
    /\ UDMSettings = NilSettings
    /\ ServerHeaders = NoHeaders
    /\ Prefs \in [threadCount : 1..MaxThreads, maxRetries : {ExampleMaxRetries}]
    /\ origin \in Origins
    /\ origin.fault # "none" =>
          IF shouldUseMultiStream(ProbedHeaders, Prefs.threadCount)
          THEN origin.faultChunk \in 1..getOptimalThreadCount(Prefs.threadCount, origin.size)
          ELSE origin.faultChunk = 0
    /\ files = NoFiles

\* A multi-stream job that finds the partial files an earlier, interrupted run
\* of the same job left behind: each holds a prefix of its chunk's bytes.
InitResume ==
    /\ InitJob
    /\ UDMSettings = NilSettings
    /\ ServerHeaders = NoHeaders
    /\ Prefs \in [threadCount : 2..MaxThreads, maxRetries : {ExampleMaxRetries}]
    /\ origin \in Origins
    /\ origin.size >= MinSizeForMultiStream
    /\ origin.reportsSize /\ origin.AcceptsRanges /\ origin.reachable
    /\ origin.fault = "none"
    /\ \E pre \in [Workers -> -1..ReadsPerChunk] :
          /\ \A c \in Workers : pre[c] >= 0 => c <= Prefs.threadCount
          /\ files = [n \in Names |->
                IF n[1] = 0 /\ n[2] \in Workers /\ pre[n[2]] >= 0
                THEN [gen |-> n[2], data |-> OriginData(n[2], 1, pre[n[2]])]
                ELSE Absent]

\* The job of ResumeCapabilityExample: a multi-stream download of a file no
\* part of which is on disk, from an origin that serves every body whole.
InitRestart ==
    /\ InitJob
    /\ UDMSettings = NilSettings
    /\ ServerHeaders = NoHeaders
    /\ Prefs \in [threadCount : 2..MaxThreads, maxRetries : {ExampleMaxRetries}]
    /\ origin \in Origins
    /\ origin.size >= MinSizeForMultiStream
    /\ origin.reportsSize /\ origin.AcceptsRanges /\ origin.reachable
    /\ origin.fault = "none"
    /\ files = NoFiles

\* A job whose probe has stored a file size, before its chunks are planned:
\* every size and thread count the planner is given, the count never above
\* the size.
PlanSizes == (1..MaxN) \cup {MinSizeForMultiStream, MinSizeForMultiStream + 1}

InitChunks ==
    /\ InitJob
    /\ UDMSettings = NilSettings
    /\ Prefs \in [threadCount : 1..MaxK, maxRetries : {ExampleMaxRetries}]
    /\ \E N \in PlanSizes :
          /\ N >= Prefs.threadCount
          /\ ServerHeaders = [Filesize |-> N, AcceptsRanges |-> TRUE]
          /\ origin = [size |-> N, reportsSize |-> TRUE, AcceptsRanges |-> TRUE,
                       reachable |-> TRUE, fault |-> "none", faultChunk |-> 0,
                       fullOnRange |-> FALSE]
    /\ files = NoFiles

\* ------------------------------------------------------------- controller
\* A callback is invoked only while d.Callbacks is set.
Raise(e) == events' = IF Callbacks THEN events \cup e ELSE events

\* handleDownloadError without its call of the error callback.
handleDownloadError_NoCallback(r, err) ==
    /\ Status' = DOWNLOAD_FAILED
    /\ Error' = err
    /\ UNCHANGED events

\* handleDownloadError: status failed, the error stored, on-error raised.
handleDownloadError(r, err) ==
    /\ Status' = DOWNLOAD_FAILED
    /\ Error' = err
    /\ Raise({<<"OnError", r, 0>>})

\* The runs whose context DownloadMultiStream / DownloadSingleStream has
\* created and not yet cancelled on its return.
ContextLive(r) ==
    opc[r] \in {"ms_exec", "ms_wait", "ms_merge", "ss_exec", "ss_loop", "final"}

\* Downloader.Pause
Pause ==
    /\ gateInit
    /\ ~isPaused
    /\ isPaused' = TRUE
    /\ Status' = DOWNLOAD_PAUSED
    /\ pausedWrites' = [r \in Runs |-> [w \in WorkerIds |-> 0]]
    /\ UNCHANGED <<Prefs, ServerHeaders, Chunks, fileInfo, gateInit, Error, origin,
                   files, nextGen, opc, strategy, ctxDone, chunkFileNames,
                   totalCompletedBytes, errorChan, wpc, resumeOffset, totalWritten,
                   body, handle, events, cancelledFrom, joinCause, isStopped,
                   Callbacks, cond, waitPc, mu, disposePc, preSize, reqStart,
                   shortBody, UDMSettings, probe, headerChan, monitor, progressAfter>>

\* Resume without its cond.Broadcast(): the flag is cleared and the waiting
\* goroutines are left waiting.
Resume_NoBroadcast ==
    /\ gateInit
    /\ isPaused
    /\ isPaused' = FALSE
    /\ Status' = DOWNLOAD_IN_PROGRESS
    /\ pausedWrites' = [r \in Runs |-> [w \in WorkerIds |-> 0]]
    /\ UNCHANGED <<Prefs, ServerHeaders, Chunks, fileInfo, gateInit, Error, origin,
                   files, nextGen, opc, strategy, ctxDone, chunkFileNames,
                   totalCompletedBytes, errorChan, wpc, resumeOffset, totalWritten,
                   body, handle, events, cancelledFrom, joinCause, isStopped,
                   Callbacks, cond, waitPc, mu, disposePc, preSize, reqStart,
                   shortBody, UDMSettings, probe, headerChan, monitor, progressAfter>>

\* Downloader.Resume: the flag is cleared and cond.Broadcast() wakes every
\* goroutine waiting on the condition variable.
Resume ==
    /\ gateInit
    /\ isPaused
    /\ isPaused' = FALSE
    /\ Status' = DOWNLOAD_IN_PROGRESS
    /\ cond' = {}
    /\ pausedWrites' = [r \in Runs |-> [w \in WorkerIds |-> 0]]
    /\ UNCHANGED <<Prefs, ServerHeaders, Chunks, fileInfo, gateInit, Error, origin,
                   files, nextGen, opc, strategy, ctxDone, chunkFileNames,
                   totalCompletedBytes, errorChan, wpc, resumeOffset, totalWritten,
                   body, handle, events, cancelledFrom, joinCause, isStopped,
                   Callbacks, waitPc, mu, disposePc, preSize, reqStart, shortBody,
                   UDMSettings, probe, headerChan, monitor, progressAfter>>

\* Downloader.Cancel
Cancel ==
    /\ gateInit
    /\ isPaused' = FALSE
    /\ Status' = DOWNLOAD_STOPPED
    /\ cond' = {}
    /\ cancelledFrom' = IF cancelledFrom # "" THEN cancelledFrom
                        ELSE IF /\ \E r \in Runs : ContextLive(r)
                                /\ Status \in {DOWNLOAD_IN_PROGRESS, DOWNLOAD_PAUSED}
                             THEN "running" ELSE "other"
    /\ pausedWrites' = [r \in Runs |-> [w \in WorkerIds |-> 0]]
    /\ UNCHANGED <<Prefs, ServerHeaders, Chunks, fileInfo, gateInit, Error, origin,
                   files, nextGen, opc, strategy, ctxDone, chunkFileNames,
                   totalCompletedBytes, errorChan, wpc, resumeOffset, totalWritten,
                   body, handle, events, joinCause, isStopped, Callbacks, waitPc, mu,
                   disposePc, preSize, reqStart, shortBody, UDMSettings, probe,
                   headerChan, monitor, progressAfter>>

\* d.cancelFunc(): the cancel function of the context of the run under way.
cancelFunc == [r \in Runs |-> ctxDone[r] \/ ContextLive(r)]

\* PauseController.Pause
PauseController_Pause ==
    /\ isPaused' = TRUE
    /\ UNCHANGED <<Prefs, ServerHeaders, Chunks, fileInfo, gateInit, Status, Error,
                   origin, files, nextGen, opc, strategy, ctxDone, chunkFileNames,
                   totalCompletedBytes, errorChan, wpc, resumeOffset, totalWritten,
                   body, handle, events, cancelledFrom, joinCause, isStopped,
                   Callbacks, cond, waitPc, mu, disposePc, preSize, reqStart,
                   shortBody, pausedWrites, UDMSettings, probe, headerChan, monitor,
                   progressAfter>>

\* PauseController.Resume: the flag is cleared and cond.Broadcast() wakes every
\* caller waiting in WaitIfPaused.
PauseController_Resume ==
    /\ isPaused' = FALSE
    /\ cond' = {}
    /\ waitPc' = [g \in WorkerIds |-> IF waitPc[g] = "waiting" THEN "woken"
                                       ELSE waitPc[g]]
    /\ UNCHANGED <<Prefs, ServerHeaders, Chunks, fileInfo, gateInit, Status, Error,
                   origin, files, nextGen, opc, strategy, ctxDone, chunkFileNames,
                   totalCompletedBytes, errorChan, wpc, resumeOffset, totalWritten,
                   body, handle, events, cancelledFrom, joinCause, isStopped,
                   Callbacks, mu, disposePc, preSize, reqStart, shortBody,
                   pausedWrites, UDMSettings, probe, headerChan, monitor,
                   progressAfter>>

\* A goroutine calls PauseController.WaitIfPaused (again, once an earlier call
\* of its own has returned).
CallWaitIfPaused(g) ==
    /\ waitPc[g] \in {"idle", "returned"}
    /\ waitPc' = [waitPc EXCEPT ![g] = "called"]
    /\ UNCHANGED <<Prefs, ServerHeaders, Chunks, fileInfo, gateInit, isPaused, Status,
                   Error, origin, files, nextGen, opc, strategy, ctxDone,
                   chunkFileNames, totalCompletedBytes, errorChan, wpc, resumeOffset,
                   totalWritten, body, handle, events, cancelledFrom, joinCause,
                   isStopped, Callbacks, cond, mu, disposePc, preSize, reqStart,
                   shortBody, pausedWrites, UDMSettings, probe, headerChan, monitor,
                   progressAfter>>

\* WaitIfPaused with "if pc.isPaused" in place of "for pc.isPaused": a caller
\* that was woken returns without looking at the flag again.
WaitIfPaused_NoRecheck(g) ==
    /\ waitPc[g] \in {"called", "woken"}
    /\ waitPc' = [waitPc EXCEPT ![g] = IF waitPc[g] = "called" /\ isPaused
                                       THEN "waiting" ELSE "returned"]
    /\ UNCHANGED <<Prefs, ServerHeaders, Chunks, fileInfo, gateInit, isPaused, Status,
                   Error, origin, files, nextGen, opc, strategy, ctxDone,
                   chunkFileNames, totalCompletedBytes, errorChan, wpc, resumeOffset,
                   totalWritten, body, handle, events, cancelledFrom, joinCause,
                   isStopped, Callbacks, cond, mu, disposePc, preSize, reqStart,
                   shortBody, pausedWrites, UDMSettings, probe, headerChan, monitor,
                   progressAfter>>

\* PauseController.WaitIfPaused, one pass under pc.mu: the loop condition is
\* read on entry and after every wake-up; with the flag set the caller waits
\* on cond, with the flag clear the call returns.
WaitIfPaused(g) ==
    /\ waitPc[g] \in {"called", "woken"}
    /\ waitPc' = [waitPc EXCEPT ![g] = IF isPaused THEN "waiting" ELSE "returned"]
    /\ UNCHANGED <<Prefs, ServerHeaders, Chunks, fileInfo, gateInit, isPaused, Status,
                   Error, origin, files, nextGen, opc, strategy, ctxDone,
                   chunkFileNames, totalCompletedBytes, errorChan, wpc, resumeOffset,
                   totalWritten, body, handle, events, cancelledFrom, joinCause,
                   isStopped, Callbacks, cond, mu, disposePc, preSize, reqStart,
                   shortBody, pausedWrites, UDMSettings, probe, headerChan, monitor,
                   progressAfter>>

\* The callers of StopDownload: the application, and Dispose.
Callers == {"app", "Dispose"}

\* Downloader.StopDownload: d.mu is taken; nothing when already stopped; else
\* the context is cancelled, the callbacks are cleared and the job is marked
\* stopped.  The call made by Dispose ends Dispose too, which then releases
\* d.mu.
StopDownloadBy(c) ==
    /\ c = "Dispose" => disposePc = "StopDownload"
    /\ mu = ""
    /\ IF isStopped
       THEN UNCHANGED <<ctxDone, Callbacks, isStopped>>
       ELSE /\ ctxDone' = cancelFunc
            /\ Callbacks' = FALSE
            /\ isStopped' = TRUE
    /\ mu' = ""
    /\ disposePc' = IF c = "Dispose" THEN "returned" ELSE disposePc
    /\ UNCHANGED <<Prefs, ServerHeaders, Chunks, fileInfo, gateInit, isPaused, Status,
                   Error, origin, files, nextGen, opc, strategy, chunkFileNames,
                   totalCompletedBytes, errorChan, wpc, resumeOffset, totalWritten,
                   body, handle, events, cancelledFrom, joinCause, cond, waitPc,
                   preSize, reqStart, shortBody, pausedWrites, UDMSettings, probe,
                   headerChan, monitor, progressAfter>>

StopDownload == \E c \in Callers : StopDownloadBy(c)

\* Downloader.Dispose: d.mu is taken and StopDownload is called.
Dispose ==
    /\ disposePc = "idle"
    /\ mu = ""
    /\ mu' = "Dispose"
    /\ disposePc' = "StopDownload"
    /\ UNCHANGED <<Prefs, ServerHeaders, Chunks, fileInfo, gateInit, isPaused, Status,
                   Error, origin, files, nextGen, opc, strategy, ctxDone,
                   chunkFileNames, totalCompletedBytes, errorChan, wpc, resumeOffset,
                   totalWritten, body, handle, events, cancelledFrom, joinCause,
                   isStopped, Callbacks, cond, waitPc, preSize, reqStart, shortBody,
                   pausedWrites, UDMSettings, probe, headerChan, monitor,
                   progressAfter>>

\* StartDownload up to the probe: initializeDownload.  The second call is the
\* one ResumeCapabilityExample makes after its Cancel().
StartDownload(r) ==
    /\ opc[r] = "idle"
    /\ r = 1 \/ (opc[1] # "idle" /\ cancelledFrom # "")
    /\ gateInit' = TRUE
    /\ Status' = DOWNLOAD_QUEUED
    /\ opc' = [opc EXCEPT ![r] = "prefetch"]
    /\ UNCHANGED <<Prefs, ServerHeaders, Chunks, fileInfo, isPaused, Error, origin,
                   files, nextGen, strategy, ctxDone, chunkFileNames,
                   totalCompletedBytes, errorChan, wpc, resumeOffset, totalWritten,
                   body, handle, events, cancelledFrom, joinCause, isStopped,
                   Callbacks, cond, waitPc, mu, disposePc, preSize, reqStart,
                   shortBody, pausedWrites, UDMSettings, probe, headerChan, monitor,
                   progressAfter>>

\* Prefetch: the probe's result is stored and CheckPreferences names the file;
\* a failed probe ends StartDownload in handleDownloadError.
Prefetch(r) ==
    /\ opc[r] = "prefetch"
    /\ IF origin.reachable
       THEN /\ ServerHeaders' = ProbedHeaders
            /\ fileInfo' = 0
            /\ opc' = [opc EXCEPT ![r] = "strategy"]
            /\ UNCHANGED <<Status, Error, events>>
       ELSE /\ handleDownloadError(r, Err("probe", 0))
            /\ opc' = [opc EXCEPT ![r] = "done"]
            /\ UNCHANGED <<ServerHeaders, fileInfo>>
    /\ UNCHANGED <<Prefs, Chunks, gateInit, isPaused, origin, files, nextGen,
                   strategy, ctxDone, chunkFileNames, totalCompletedBytes, errorChan,
                   wpc, resumeOffset, totalWritten, body, handle, cancelledFrom,
                   joinCause, isStopped, Callbacks, cond, waitPc, mu, disposePc,
                   preSize, reqStart, shortBody, pausedWrites, UDMSettings, probe,
                   headerChan, monitor, progressAfter>>

\* executeDownloadStrategy
ExecuteDownloadStrategy(r) ==
    /\ opc[r] = "strategy"
    /\ IF executeDownloadStrategy(ServerHeaders, Prefs.threadCount) = "multi"
       THEN /\ strategy' = [strategy EXCEPT ![r] = "multi"]
            /\ opc' = [opc EXCEPT ![r] = "ms_init"]
       ELSE /\ strategy' = [strategy EXCEPT ![r] = "single"]
            /\ opc' = [opc EXCEPT ![r] = "ss_init"]
    /\ UNCHANGED <<Prefs, ServerHeaders, Chunks, fileInfo, gateInit, isPaused, Status,
                   Error, origin, files, nextGen, ctxDone, chunkFileNames,
                   totalCompletedBytes, errorChan, wpc, resumeOffset, totalWritten,
                   body, handle, events, cancelledFrom, joinCause, isStopped,
                   Callbacks, cond, waitPc, mu, disposePc, preSize, reqStart,
                   shortBody, pausedWrites, UDMSettings, probe, headerChan, monitor,
                   progressAfter>>

\* ------------------------------------------------- multi-stream orchestrator
\* initializeMultiStreamDownload (with setupDownloadPaths); DownloadMultiStream
\* ends in handleDownloadError when it reports an error.
InitializeMultiStreamDownload(r) ==
    /\ opc[r] = "ms_init"
    /\ fileInfo' = GenerateUniqueFilename(files)
    /\ IF ~ServerHeaders.AcceptsRanges \/ ServerHeaders.Filesize <= 0
       THEN /\ handleDownloadError(r, Err("init", 0))
            /\ opc' = [opc EXCEPT ![r] = "done"]
       ELSE /\ Status' = DOWNLOAD_IN_PROGRESS
            /\ Raise({<<"OnStart", r, 0>>})
            /\ opc' = [opc EXCEPT ![r] = "ms_exec"]
            /\ UNCHANGED Error
    /\ UNCHANGED <<Prefs, ServerHeaders, Chunks, gateInit, isPaused, origin, files,
                   nextGen, strategy, ctxDone, chunkFileNames, totalCompletedBytes,
                   errorChan, wpc, resumeOffset, totalWritten, body, handle,
                   cancelledFrom, joinCause, isStopped, Callbacks, cond, waitPc, mu,
                   disposePc, preSize, reqStart, shortBody, pausedWrites, UDMSettings,
                   probe, headerChan, monitor, progressAfter>>

\* executeMultiStreamDownload up to the start of the workers: the chunks are
\* planned, the chunk files created and one worker per chunk started.
ExecuteMultiStreamDownload(r) ==
    /\ opc[r] = "ms_exec"
    /\ LET threadCount == getOptimalThreadCount(Prefs.threadCount, ServerHeaders.Filesize)
           chunkSizes == DivideChunks(ServerHeaders.Filesize, threadCount)
           names == GenerateChunkFileNames(fileInfo, threadCount)
           made == GenerateChunkFiles(files, nextGen, names)
       IN  /\ Chunks' = initializeChunks(chunkSizes)
           /\ chunkFileNames' = [chunkFileNames EXCEPT ![r] = names]
           /\ preSize' = [c \in Workers |->
                            IF c <= threadCount /\ FileExists(names[c])
                            THEN FileSize(names[c]) ELSE -1]
           /\ files' = made.fs
           /\ nextGen' = made.gen
           /\ wpc' = [wpc EXCEPT ![r] = [w \in WorkerIds |->
                            IF w \in 1..threadCount THEN "detect" ELSE "idle"]]
    /\ totalCompletedBytes' = [totalCompletedBytes EXCEPT ![r] = 0]
    /\ errorChan' = [errorChan EXCEPT ![r] = <<>>]
    /\ opc' = [opc EXCEPT ![r] = "ms_wait"]
    /\ monitor' = [monitor EXCEPT ![r] = "running"]
    /\ UNCHANGED <<Prefs, ServerHeaders, fileInfo, gateInit, isPaused, Status, Error,
                   origin, strategy, ctxDone, resumeOffset, totalWritten, body,
                   handle, events, cancelledFrom, joinCause, isStopped, Callbacks,
                   cond, waitPc, mu, disposePc, reqStart, shortBody, pausedWrites,
                   UDMSettings, probe, headerChan, progressAfter>>

\* downloadChunksConcurrently without its wg.Wait(): the orchestrator goes on
\* while chunk workers are still running.
JoinWorkers_NoWait(r) ==
    /\ opc[r] = "ms_wait"
    /\ IF Len(errorChan[r]) > 0
       THEN /\ files' = CleanupChunkFiles(files, chunkFileNames[r])
            /\ IF ctxDone[r]
               THEN /\ Status' = DOWNLOAD_STOPPED
                    /\ Raise({<<"OnStop", r, 0>>})
                    /\ joinCause' = [joinCause EXCEPT ![r] = "cancel"]
                    /\ UNCHANGED Error
               ELSE /\ handleDownloadError(r, Head(errorChan[r]))
                    /\ joinCause' = [joinCause EXCEPT ![r] = "error"]
            /\ errorChan' = [errorChan EXCEPT ![r] = Tail(errorChan[r])]
            /\ opc' = [opc EXCEPT ![r] = "done"]
            /\ ctxDone' = [ctxDone EXCEPT ![r] = TRUE]
       ELSE /\ opc' = [opc EXCEPT ![r] = "ms_merge"]
            /\ UNCHANGED <<Status, Error, files, ctxDone, errorChan, events, joinCause>>
    /\ UNCHANGED <<Prefs, ServerHeaders, Chunks, fileInfo, gateInit, isPaused, origin,
                   nextGen, strategy, chunkFileNames, totalCompletedBytes, wpc,
                   resumeOffset, totalWritten, body, handle, cancelledFrom, isStopped,
                   Callbacks, cond, waitPc, mu, disposePc, preSize, reqStart,
                   shortBody, pausedWrites, UDMSettings, probe, headerChan, monitor,
                   progressAfter>>

\* The orchestrator taking the error that was sent last.
JoinWorkers_LastError(r) ==
    /\ opc[r] = "ms_wait"
    /\ \A w \in 1..Len(chunkFileNames[r]) : wpc[r][w] = "returned"
    /\ IF Len(errorChan[r]) > 0
       THEN /\ files' = CleanupChunkFiles(files, chunkFileNames[r])
            /\ IF ctxDone[r]
               THEN /\ Status' = DOWNLOAD_STOPPED
                    /\ Raise({<<"OnStop", r, 0>>})
                    /\ joinCause' = [joinCause EXCEPT ![r] = "cancel"]
                    /\ UNCHANGED Error
               ELSE /\ handleDownloadError(r, errorChan[r][Len(errorChan[r])])
                    /\ joinCause' = [joinCause EXCEPT ![r] = "error"]
            /\ errorChan' = [errorChan EXCEPT ![r] = Tail(errorChan[r])]
            /\ opc' = [opc EXCEPT ![r] = "done"]
            /\ ctxDone' = [ctxDone EXCEPT ![r] = TRUE]
       ELSE /\ opc' = [opc EXCEPT ![r] = "ms_merge"]
            /\ UNCHANGED <<Status, Error, files, ctxDone, errorChan, events, joinCause>>
    /\ UNCHANGED <<Prefs, ServerHeaders, Chunks, fileInfo, gateInit, isPaused, origin,
                   nextGen, strategy, chunkFileNames, totalCompletedBytes, wpc,
                   resumeOffset, totalWritten, body, handle, cancelledFrom, isStopped,
                   Callbacks, cond, waitPc, mu, disposePc, preSize, reqStart,
                   shortBody, pausedWrites, UDMSettings, probe, headerChan, monitor,
                   progressAfter>>

\* downloadChunksConcurrently from wg.Wait() on, and what
\* executeMultiStreamDownload does with the error it returns.
JoinWorkers(r) ==
    /\ opc[r] = "ms_wait"
    /\ \A w \in 1..Len(chunkFileNames[r]) : wpc[r][w] = "returned"
    /\ IF Len(errorChan[r]) > 0
       THEN /\ files' = CleanupChunkFiles(files, chunkFileNames[r])
            /\ IF ctxDone[r]
               THEN /\ Status' = DOWNLOAD_STOPPED
                    /\ Raise({<<"OnStop", r, 0>>})
                    /\ joinCause' = [joinCause EXCEPT ![r] = "cancel"]
                    /\ UNCHANGED Error
               ELSE /\ handleDownloadError(r, Head(errorChan[r]))
                    /\ joinCause' = [joinCause EXCEPT ![r] = "error"]
            /\ errorChan' = [errorChan EXCEPT ![r] = Tail(errorChan[r])]
            /\ opc' = [opc EXCEPT ![r] = "done"]
            /\ ctxDone' = [ctxDone EXCEPT ![r] = TRUE]
       ELSE /\ opc' = [opc EXCEPT ![r] = "ms_merge"]
            /\ UNCHANGED <<Status, Error, files, ctxDone, errorChan, events, joinCause>>
    /\ UNCHANGED <<Prefs, ServerHeaders, Chunks, fileInfo, gateInit, isPaused, origin,
                   nextGen, strategy, chunkFileNames, totalCompletedBytes, wpc,
                   resumeOffset, totalWritten, body, handle, cancelledFrom, isStopped,
                   Callbacks, cond, waitPc, mu, disposePc, preSize, reqStart,
                   shortBody, pausedWrites, UDMSettings, probe, headerChan, monitor,
                   progressAfter>>

\* mergeChunksToFinalFile
MergeChunksToFinalFile(r) ==
    /\ opc[r] = "ms_merge"
    /\ LET out == <<fileInfo, 0>>
           merged == MergeChunkFiles(files, nextGen, chunkFileNames[r], out)
       IN  /\ files' = merged.fs
           /\ nextGen' = IF FileExists(out) THEN nextGen ELSE nextGen + 1
           /\ IF merged.ok
              THEN /\ Raise({<<"OnAssembleStart", r, 0>>, <<"OnAssembleFinish", r, 0>>})
                   /\ opc' = [opc EXCEPT ![r] = "final"]
                   /\ UNCHANGED <<Status, Error, ctxDone>>
              ELSE /\ Status' = DOWNLOAD_FAILED
                   /\ Error' = Err("merge", 0)
                   /\ Raise({<<"OnAssembleStart", r, 0>>, <<"OnAssembleError", r, 0>>,
                             <<"OnError", r, 0>>})
                   /\ opc' = [opc EXCEPT ![r] = "done"]
                   /\ ctxDone' = [ctxDone EXCEPT ![r] = TRUE]
    /\ UNCHANGED <<Prefs, ServerHeaders, Chunks, fileInfo, gateInit, isPaused, origin,
                   strategy, chunkFileNames, totalCompletedBytes, errorChan, wpc,
                   resumeOffset, totalWritten, body, handle, cancelledFrom, joinCause,
                   isStopped, Callbacks, cond, waitPc, mu, disposePc, preSize,
                   reqStart, shortBody, pausedWrites, UDMSettings, probe, headerChan,
                   monitor, progressAfter>>

\* finalizeDownload, after which DownloadMultiStream / DownloadSingleStream
\* returns and its deferred cancel() runs.
FinalizeDownload(r) ==
    /\ opc[r] = "final"
    /\ Status' = DOWNLOAD_COMPLETED
    /\ Raise({<<"OnFinish", r, 0>>})
    /\ opc' = [opc EXCEPT ![r] = "done"]
    /\ ctxDone' = [ctxDone EXCEPT ![r] = TRUE]
    /\ UNCHANGED <<Prefs, ServerHeaders, Chunks, fileInfo, gateInit, isPaused, Error,
                   origin, files, nextGen, strategy, chunkFileNames,
                   totalCompletedBytes, errorChan, wpc, resumeOffset, totalWritten,
                   body, handle, cancelledFrom, joinCause, isStopped, Callbacks, cond,
                   waitPc, mu, disposePc, preSize, reqStart, shortBody, pausedWrites,
                   UDMSettings, probe, headerChan, monitor, progressAfter>>

\* ------------------------------------------------------------ chunk worker
\* detectChunkResumeOffset
detectChunkResumeOffset(chunkFile, expectedSize) ==
    IF ~FileExists(chunkFile) THEN 0
    ELSE IF FileSize(chunkFile) >= expectedSize THEN expectedSize
    ELSE FileSize(chunkFile)

\* The body the origin sends for the slots from first on; the faulty origin
\* ends the body of one chunk of the first run one slot early.
Faulty(r, w) == origin.fault # "none" /\ origin.faultChunk = w /\ r = 1
ResponseBody(r, w, first) ==
    LET full == [n \in 1..(ReadsPerChunk - first + 1) |-> first + n - 1]
    IN  IF Faulty(r, w) /\ Len(full) > 0 THEN SubSeq(full, 1, Len(full) - 1) ELSE full

\* The worker goroutine's error return: the error goes to the error channel.
WorkerFails(r, w, kind, raised) ==
    /\ errorChan' = [errorChan EXCEPT ![r] = Append(errorChan[r], Err(kind, w))]
    /\ Raise(raised)
    /\ wpc' = [wpc EXCEPT ![r][w] = "returned"]

\* downloadSingleChunk after a nil error of downloadChunkWithProgress.
ChunkFinishes(r, w) ==
    /\ Chunks' = [Chunks EXCEPT ![w].IsCompleted = TRUE]
    /\ Raise({<<"OnChunkFinish", r, w>>})
    /\ wpc' = [wpc EXCEPT ![r][w] = "returned"]

\* The worker body skipping a complete chunk without counting its bytes.
WorkerStart_SkipUncounted(r, w) ==
    /\ w \in Workers
    /\ wpc[r][w] = "detect"
    /\ LET off == detectChunkResumeOffset(chunkFileNames[r][w], Chunks[w].Size)
       IN  IF off >= Chunks[w].Size
           THEN /\ ChunkFinishes(r, w)
                /\ UNCHANGED <<totalCompletedBytes, resumeOffset>>
           ELSE /\ resumeOffset' = [resumeOffset EXCEPT ![r][w] = off]
                /\ wpc' = [wpc EXCEPT ![r][w] = "request"]
                /\ UNCHANGED <<totalCompletedBytes, Chunks, events>>
    /\ UNCHANGED <<Prefs, ServerHeaders, fileInfo, gateInit, isPaused, Status, Error,
                   origin, files, nextGen, opc, strategy, ctxDone, chunkFileNames,
                   errorChan, totalWritten, body, handle, cancelledFrom, joinCause,
                   isStopped, Callbacks, cond, waitPc, mu, disposePc, preSize,
                   reqStart, shortBody, pausedWrites, UDMSettings, probe, headerChan,
                   monitor, progressAfter>>

\* The worker goroutine of downloadChunksConcurrently up to the request: resume
\* detection and the skip of a chunk whose partial file is complete.
WorkerStart(r, w) ==
    /\ w \in Workers
    /\ wpc[r][w] = "detect"
    /\ LET off == detectChunkResumeOffset(chunkFileNames[r][w], Chunks[w].Size)
       IN  IF off >= Chunks[w].Size
           THEN /\ totalCompletedBytes' =
                       [totalCompletedBytes EXCEPT ![r] = @ + Chunks[w].Size]
                /\ ChunkFinishes(r, w)
                /\ UNCHANGED resumeOffset
           ELSE /\ resumeOffset' = [resumeOffset EXCEPT ![r][w] = off]
                /\ wpc' = [wpc EXCEPT ![r][w] = "request"]
                /\ UNCHANGED <<totalCompletedBytes, Chunks, events>>
    /\ UNCHANGED <<Prefs, ServerHeaders, fileInfo, gateInit, isPaused, Status, Error,
                   origin, files, nextGen, opc, strategy, ctxDone, chunkFileNames,
                   errorChan, totalWritten, body, handle, cancelledFrom, joinCause,
                   isStopped, Callbacks, cond, waitPc, mu, disposePc, preSize,
                   reqStart, shortBody, pausedWrites, UDMSettings, probe, headerChan,
                   monitor, progressAfter>>

\* downloadSingleChunk up to the read loop: the ranged request, the status
\* check and openChunkFile.
DownloadSingleChunk(r, w) ==
    /\ w \in Workers
    /\ wpc[r][w] = "request"
    /\ LET chunkFile == chunkFileNames[r][w]
           off == resumeOffset[r][w]
           kind == IF ctxDone[r] THEN "request"
                   ELSE IF ~origin.AcceptsRanges \/ origin.fullOnRange THEN "status"
                   ELSE IF off > 0 /\ ~FileExists(chunkFile) THEN "open"
                   ELSE "nil"
       IN  IF kind # "nil"
           THEN /\ WorkerFails(r, w, kind, {<<"OnChunkStart", r, w>>})
                /\ UNCHANGED <<files, nextGen, totalWritten, body, handle, reqStart,
                               shortBody>>
           ELSE /\ Raise({<<"OnChunkStart", r, w>>})
                /\ reqStart' = [reqStart EXCEPT ![r][w] = Chunks[w].Start + off]
                /\ IF off > 0
                   THEN /\ handle' = [handle EXCEPT ![r][w] =
                               [gen |-> files[chunkFile].gen,
                                off |-> Len(files[chunkFile].data), append |-> TRUE]]
                        /\ UNCHANGED <<files, nextGen>>
                   ELSE /\ files' = CreateFile(files, nextGen, chunkFile)
                        /\ nextGen' = IF FileExists(chunkFile) THEN nextGen
                                      ELSE nextGen + 1
                        /\ handle' = [handle EXCEPT ![r][w] =
                               [gen |-> IF FileExists(chunkFile)
                                        THEN files[chunkFile].gen ELSE nextGen,
                                off |-> 0, append |-> FALSE]]
                /\ body' = [body EXCEPT ![r][w] =
                               ResponseBody(r, w, SlotsBefore(w, off) + 1)]
                /\ shortBody' = [shortBody EXCEPT ![r][w] = Faulty(r, w)]
                /\ totalWritten' = [totalWritten EXCEPT ![r][w] = 0]
                /\ wpc' = [wpc EXCEPT ![r][w] = "loop"]
                /\ UNCHANGED errorChan
    /\ UNCHANGED <<Prefs, ServerHeaders, Chunks, fileInfo, gateInit, isPaused, Status,
                   Error, origin, opc, strategy, ctxDone, chunkFileNames,
                   totalCompletedBytes, resumeOffset, cancelledFrom, joinCause,
                   isStopped, Callbacks, cond, waitPc, mu, disposePc, preSize,
                   pausedWrites, UDMSettings, probe, headerChan, monitor,
                   progressAfter>>

\* The select on ctx.Done() that follows checkPauseState in the read loop.
ChunkCancelCheck(r, w, raised) ==
    IF ctxDone[r]
    THEN /\ WorkerFails(r, w, "ctx", raised \cup {<<"OnChunkError", r, w>>})
         /\ UNCHANGED Chunks
    ELSE /\ wpc' = [wpc EXCEPT ![r][w] = "read"]
         /\ Raise(raised)
         /\ UNCHANGED <<errorChan, Chunks>>

\* The read loop without its pause check: the worker goes from the loop
\* condition straight to the cancellation check.
ChunkLoopCheck_NoGate(r, w) ==
    /\ w \in Workers
    /\ wpc[r][w] = "loop"
    /\ IF totalWritten[r][w] >= Chunks[w].Size - resumeOffset[r][w]
       THEN /\ ChunkFinishes(r, w)
            /\ UNCHANGED errorChan
       ELSE ChunkCancelCheck(r, w, {})
    /\ UNCHANGED <<Prefs, ServerHeaders, fileInfo, gateInit, isPaused, Status, Error,
                   origin, files, nextGen, opc, strategy, ctxDone, chunkFileNames,
                   totalCompletedBytes, resumeOffset, totalWritten, body, handle,
                   cancelledFrom, joinCause, isStopped, Callbacks, cond, waitPc, mu,
                   disposePc, preSize, reqStart, shortBody, pausedWrites, UDMSettings,
                   probe, headerChan, monitor, progressAfter>>

\* downloadChunkWithProgress: the loop condition and checkPauseState.  A worker
\* that finds the gate closed raises on-pause and waits in checkPauseState.
ChunkLoopCheck(r, w) ==
    /\ w \in Workers
    /\ wpc[r][w] = "loop"
    /\ IF totalWritten[r][w] >= Chunks[w].Size - resumeOffset[r][w]
       THEN /\ ChunkFinishes(r, w)
            /\ UNCHANGED errorChan
       ELSE IF isPaused
       THEN /\ wpc' = [wpc EXCEPT ![r][w] = "paused"]
            /\ Raise({<<"OnPause", r, w>>})
            /\ UNCHANGED <<errorChan, Chunks>>
       ELSE ChunkCancelCheck(r, w, {})
    /\ UNCHANGED <<Prefs, ServerHeaders, fileInfo, gateInit, isPaused, Status, Error,
                   origin, files, nextGen, opc, strategy, ctxDone, chunkFileNames,
                   totalCompletedBytes, resumeOffset, totalWritten, body, handle,
                   cancelledFrom, joinCause, isStopped, Callbacks, cond, waitPc, mu,
                   disposePc, preSize, reqStart, shortBody, pausedWrites, UDMSettings,
                   probe, headerChan, monitor, progressAfter>>

\* checkPauseState calling cond.Wait() without testing the flag: a goroutine
\* that arrives after Resume()'s Broadcast waits for a wake-up that is past.
ChunkWaits_FlagNotTested(r, w) ==
    /\ w \in Workers
    /\ wpc[r][w] = "paused"
    /\ <<r, w>> \notin cond
    /\ cond' = cond \cup {<<r, w>>}
    /\ UNCHANGED <<Prefs, ServerHeaders, Chunks, fileInfo, gateInit, isPaused, Status,
                   Error, origin, files, nextGen, opc, strategy, ctxDone,
                   chunkFileNames, totalCompletedBytes, errorChan, wpc, resumeOffset,
                   totalWritten, body, handle, events, cancelledFrom, joinCause,
                   isStopped, Callbacks, waitPc, mu, disposePc, preSize, reqStart,
                   shortBody, pausedWrites, UDMSettings, probe, headerChan, monitor,
                   progressAfter>>

\* checkPauseState: the wait loop finds the flag set and calls cond.Wait().
ChunkWaits(r, w) ==
    /\ w \in Workers
    /\ wpc[r][w] = "paused"
    /\ <<r, w>> \notin cond
    /\ isPaused
    /\ cond' = cond \cup {<<r, w>>}
    /\ UNCHANGED <<Prefs, ServerHeaders, Chunks, fileInfo, gateInit, isPaused, Status,
                   Error, origin, files, nextGen, opc, strategy, ctxDone,
                   chunkFileNames, totalCompletedBytes, errorChan, wpc, resumeOffset,
                   totalWritten, body, handle, events, cancelledFrom, joinCause,
                   isStopped, Callbacks, waitPc, mu, disposePc, preSize, reqStart,
                   shortBody, pausedWrites, UDMSettings, probe, headerChan, monitor,
                   progressAfter>>

\* checkPauseState: the wait loop of a goroutine that is not waiting on the
\* condition variable finds the flag clear; on-resume is raised and the read
\* loop goes on to its cancellation check.
ChunkResumes(r, w) ==
    /\ w \in Workers
    /\ wpc[r][w] = "paused"
    /\ <<r, w>> \notin cond
    /\ ~isPaused
    /\ ChunkCancelCheck(r, w, {<<"OnResume", r, w>>})
    /\ UNCHANGED <<Prefs, ServerHeaders, fileInfo, gateInit, isPaused, Status, Error,
                   origin, files, nextGen, opc, strategy, ctxDone, chunkFileNames,
                   totalCompletedBytes, resumeOffset, totalWritten, body, handle,
                   cancelledFrom, joinCause, isStopped, Callbacks, cond, waitPc, mu,
                   disposePc, preSize, reqStart, shortBody, pausedWrites, UDMSettings,
                   probe, headerChan, monitor, progressAfter>>

\* The read loop adding what it wrote to the aggregate counter twice.
ChunkReadWrite_CountsTwice(r, w) ==
    /\ w \in Workers
    /\ wpc[r][w] = "read"
    /\ IF body[r][w] # <<>>
       THEN LET j == Head(body[r][w])
            IN  /\ files' = WriteFile(files, chunkFileNames[r][w], handle[r][w], <<w, j>>)
                /\ handle' = [handle EXCEPT ![r][w].off = @ + 1]
                /\ body' = [body EXCEPT ![r][w] = Tail(@)]
                /\ totalWritten' = [totalWritten EXCEPT ![r][w] = @ + SlotLen(w, j)]
                /\ totalCompletedBytes' =
                       [totalCompletedBytes EXCEPT ![r] = @ + 2 * SlotLen(w, j)]
                /\ pausedWrites' = [pausedWrites EXCEPT ![r][w] =
                                        IF isPaused THEN @ + 1 ELSE @]
                /\ wpc' = [wpc EXCEPT ![r][w] = "loop"]
                /\ UNCHANGED <<errorChan, events, Chunks>>
       ELSE /\ IF origin.fault = "err"
               THEN /\ WorkerFails(r, w, "read", {<<"OnChunkError", r, w>>})
                    /\ UNCHANGED Chunks
               ELSE /\ ChunkFinishes(r, w)
                    /\ UNCHANGED errorChan
            /\ UNCHANGED <<files, totalCompletedBytes, totalWritten, body, handle,
                           pausedWrites>>
    /\ UNCHANGED <<Prefs, ServerHeaders, fileInfo, gateInit, isPaused, Status, Error,
                   origin, nextGen, opc, strategy, ctxDone, chunkFileNames,
                   resumeOffset, cancelledFrom, joinCause, isStopped, Callbacks, cond,
                   waitPc, mu, disposePc, preSize, reqStart, shortBody, UDMSettings,
                   probe, headerChan, monitor, progressAfter>>

\* downloadChunkWithProgress: one Read and the Write of what it returned.  A
\* body that has ended returns io.EOF (the loop breaks and nil is returned) or,
\* for a connection that was reset, an error.
ChunkReadWrite(r, w) ==
    /\ w \in Workers
    /\ wpc[r][w] = "read"
    /\ IF body[r][w] # <<>>
       THEN LET j == Head(body[r][w])
            IN  /\ files' = WriteFile(files, chunkFileNames[r][w], handle[r][w], <<w, j>>)
                /\ handle' = [handle EXCEPT ![r][w].off = @ + 1]
                /\ body' = [body EXCEPT ![r][w] = Tail(@)]
                /\ totalWritten' = [totalWritten EXCEPT ![r][w] = @ + SlotLen(w, j)]
                /\ totalCompletedBytes' =
                       [totalCompletedBytes EXCEPT ![r] = @ + SlotLen(w, j)]
                /\ pausedWrites' = [pausedWrites EXCEPT ![r][w] =
                                        IF isPaused THEN @ + 1 ELSE @]
                /\ wpc' = [wpc EXCEPT ![r][w] = "loop"]
                /\ UNCHANGED <<errorChan, events, Chunks>>
       ELSE /\ IF origin.fault = "err"
               THEN /\ WorkerFails(r, w, "read", {<<"OnChunkError", r, w>>})
                    /\ UNCHANGED Chunks
               ELSE /\ ChunkFinishes(r, w)
                    /\ UNCHANGED errorChan
            /\ UNCHANGED <<files, totalCompletedBytes, totalWritten, body, handle,
                           pausedWrites>>
    /\ UNCHANGED <<Prefs, ServerHeaders, fileInfo, gateInit, isPaused, Status, Error,
                   origin, nextGen, opc, strategy, ctxDone, chunkFileNames,
                   resumeOffset, cancelledFrom, joinCause, isStopped, Callbacks, cond,
                   waitPc, mu, disposePc, preSize, reqStart, shortBody, UDMSettings,
                   probe, headerChan, monitor, progressAfter>>

\* ------------------------------------------------- single-stream downloader
\* initializeSingleStreamDownload (with setupDownloadPaths)
InitializeSingleStreamDownload(r) ==
    /\ opc[r] = "ss_init"
    /\ Status' = DOWNLOAD_IN_PROGRESS
    /\ fileInfo' = GenerateUniqueFilename(files)
    /\ Raise({<<"OnStart", r, 0>>})
    /\ opc' = [opc EXCEPT ![r] = "ss_exec"]
    /\ UNCHANGED <<Prefs, ServerHeaders, Chunks, gateInit, isPaused, Error, origin,
                   files, nextGen, strategy, ctxDone, chunkFileNames,
                   totalCompletedBytes, errorChan, wpc, resumeOffset, totalWritten,
                   body, handle, cancelledFrom, joinCause, isStopped, Callbacks, cond,
                   waitPc, mu, disposePc, preSize, reqStart, shortBody, pausedWrites,
                   UDMSettings, probe, headerChan, monitor, progressAfter>>

\* detectResumeOffset
detectResumeOffset(out) ==
    IF ~FileExists(out) THEN 0
    ELSE IF ServerHeaders.AcceptsRanges THEN FileSize(out)
    ELSE 0

\* executeSingleStreamDownload when performSingleStreamDownload has returned
\* an error: stopped for a cancelled context, failed otherwise.
SingleStreamFails(r, kind, raised) ==
    /\ IF ctxDone[r]
       THEN /\ Status' = DOWNLOAD_STOPPED
            /\ Raise(raised \cup {<<"OnStop", r, 0>>})
            /\ UNCHANGED Error
       ELSE /\ Status' = DOWNLOAD_FAILED
            /\ Error' = Err(kind, 0)
            /\ Raise(raised \cup {<<"OnError", r, 0>>})
    /\ opc' = [opc EXCEPT ![r] = "done"]
    /\ ctxDone' = [ctxDone EXCEPT ![r] = TRUE]
    /\ wpc' = [wpc EXCEPT ![r][0] = "returned"]

\* executeSingleStreamDownload and performSingleStreamDownload up to the read
\* loop: resume detection, the request, the status check and openOutputFile.
ExecuteSingleStreamDownload(r) ==
    /\ opc[r] = "ss_exec"
    /\ LET out == <<fileInfo, 0>>
           off == detectResumeOffset(out)
           ranged == off > 0 /\ ServerHeaders.AcceptsRanges
           first == IF ranged /\ ~origin.fullOnRange THEN SlotsBefore(0, off) + 1 ELSE 1
       IN  IF ctxDone[r]
           THEN /\ SingleStreamFails(r, "request", {})
                /\ UNCHANGED <<files, nextGen, resumeOffset, body, handle, reqStart,
                               shortBody>>
           ELSE /\ resumeOffset' = [resumeOffset EXCEPT ![r][0] = off]
                /\ reqStart' = [reqStart EXCEPT ![r][0] = IF ranged THEN off ELSE 0]
                /\ IF off > 0
                   THEN /\ handle' = [handle EXCEPT ![r][0] =
                               [gen |-> files[out].gen, off |-> Len(files[out].data),
                                append |-> TRUE]]
                        /\ UNCHANGED <<files, nextGen>>
                   ELSE /\ files' = CreateFile(files, nextGen, out)
                        /\ nextGen' = IF FileExists(out) THEN nextGen ELSE nextGen + 1
                        /\ handle' = [handle EXCEPT ![r][0] =
                               [gen |-> IF FileExists(out) THEN files[out].gen
                                        ELSE nextGen,
                                off |-> 0, append |-> FALSE]]
                /\ body' = [body EXCEPT ![r][0] = ResponseBody(r, 0, first)]
                /\ shortBody' = [shortBody EXCEPT ![r][0] = Faulty(r, 0)]
                /\ wpc' = [wpc EXCEPT ![r][0] = "loop"]
                /\ opc' = [opc EXCEPT ![r] = "ss_loop"]
                /\ UNCHANGED <<Status, Error, events, ctxDone>>
    /\ headerChan' = [headerChan EXCEPT ![r] = "open"]
    /\ UNCHANGED <<Prefs, ServerHeaders, Chunks, fileInfo, gateInit, isPaused, origin,
                   strategy, chunkFileNames, totalCompletedBytes, errorChan,
                   totalWritten, cancelledFrom, joinCause, isStopped, Callbacks, cond,
                   waitPc, mu, disposePc, preSize, pausedWrites, UDMSettings, probe,
                   monitor, progressAfter>>

\* What the ranged GET of concurrentHeaderAnalysis learns: ranges from a 206 or
\* the Accept-Ranges header, the size from a Content-Range of the form
\* "bytes 0-1023/<size>" or else from Content-Length.
probeRange == 1024
UpdatedHeaders ==
    [Filesize |-> IF origin.AcceptsRanges /\ ~origin.fullOnRange
                  THEN IF origin.size >= probeRange THEN origin.size ELSE 0
                  ELSE IF origin.reportsSize THEN origin.size ELSE 0,
     AcceptsRanges |-> origin.AcceptsRanges]

\* concurrentHeaderAnalysis, the goroutine executeSingleStreamDownload starts:
\* it sends the headers it has analysed and closes the channel; with the
\* context cancelled it returns from its first select or from a failed request
\* without sending, or sends when its last select picks the send.
concurrentHeaderAnalysis(r) ==
    /\ headerChan[r] = "open"
    /\ \E sent \in BOOLEAN :
          /\ ~ctxDone[r] => sent
          /\ headerChan' = [headerChan EXCEPT ![r] = IF sent THEN "item" ELSE "closed"]
    /\ UNCHANGED <<Prefs, ServerHeaders, Chunks, fileInfo, gateInit, isPaused, Status,
                   Error, origin, files, nextGen, opc, strategy, ctxDone,
                   chunkFileNames, totalCompletedBytes, errorChan, wpc, resumeOffset,
                   totalWritten, body, handle, events, cancelledFrom, joinCause,
                   isStopped, Callbacks, cond, waitPc, mu, disposePc, preSize,
                   reqStart, shortBody, pausedWrites, UDMSettings, probe, monitor,
                   progressAfter>>

\* handleUpdatedHeaders
handleUpdatedHeaders(headers) ==
    [Filesize |-> IF headers.Filesize > 0 /\ ServerHeaders.Filesize = 0
                  THEN headers.Filesize ELSE ServerHeaders.Filesize,
     AcceptsRanges |-> ServerHeaders.AcceptsRanges \/ headers.AcceptsRanges]

\* The cases of the select that are ready: ctx.Done() once the context is
\* cancelled, headerChan once it holds the headers or is closed.
ReadyCases(r) ==
    (IF ctxDone[r] THEN {"ctx"} ELSE {})
        \cup (IF headerChan[r] \in {"item", "closed"} THEN {"headers"} ELSE {})

\* The select that follows checkPauseState in downloadWithProgress: one of the
\* ready cases is chosen, the default when none is ready.
SingleCancelCheck(r, raised) ==
    \E case \in (IF ReadyCases(r) = {} THEN {"default"} ELSE ReadyCases(r)) :
        IF case = "ctx"
        THEN /\ SingleStreamFails(r, "ctx", raised)
             /\ UNCHANGED <<ServerHeaders, headerChan>>
        ELSE /\ wpc' = [wpc EXCEPT ![r][0] = "read"]
             /\ Raise(raised)
             /\ IF case = "headers" /\ headerChan[r] = "item"
                THEN /\ ServerHeaders' = handleUpdatedHeaders(UpdatedHeaders)
                     /\ headerChan' = [headerChan EXCEPT ![r] = "closed"]
                ELSE UNCHANGED <<ServerHeaders, headerChan>>
             /\ UNCHANGED <<Status, Error, opc, ctxDone>>

\* downloadWithProgress: checkPauseState at the head of the loop.
SingleLoopCheck(r) ==
    /\ opc[r] = "ss_loop"
    /\ wpc[r][0] = "loop"
    /\ IF isPaused
       THEN /\ wpc' = [wpc EXCEPT ![r][0] = "paused"]
            /\ Raise({<<"OnPause", r, 0>>})
            /\ UNCHANGED <<Status, Error, opc, ctxDone, ServerHeaders, headerChan>>
       ELSE SingleCancelCheck(r, {})
    /\ UNCHANGED <<Prefs, Chunks, fileInfo, gateInit, isPaused, origin, files,
                   nextGen, strategy, chunkFileNames, totalCompletedBytes, errorChan,
                   resumeOffset, totalWritten, body, handle, cancelledFrom, joinCause,
                   isStopped, Callbacks, cond, waitPc, mu, disposePc, preSize,
                   reqStart, shortBody, pausedWrites, UDMSettings, probe, monitor,
                   progressAfter>>

\* checkPauseState on the single-stream path: the wait loop finds the flag set
\* and calls cond.Wait().
SingleWaits(r) ==
    /\ opc[r] = "ss_loop"
    /\ wpc[r][0] = "paused"
    /\ <<r, 0>> \notin cond
    /\ isPaused
    /\ cond' = cond \cup {<<r, 0>>}
    /\ UNCHANGED <<Prefs, ServerHeaders, Chunks, fileInfo, gateInit, isPaused, Status,
                   Error, origin, files, nextGen, opc, strategy, ctxDone,
                   chunkFileNames, totalCompletedBytes, errorChan, wpc, resumeOffset,
                   totalWritten, body, handle, events, cancelledFrom, joinCause,
                   isStopped, Callbacks, waitPc, mu, disposePc, preSize, reqStart,
                   shortBody, pausedWrites, UDMSettings, probe, headerChan, monitor,
                   progressAfter>>

\* checkPauseState on the single-stream path: the wait loop of a goroutine that
\* is not waiting on the condition variable finds the flag clear.
SingleResumes(r) ==
    /\ opc[r] = "ss_loop"
    /\ wpc[r][0] = "paused"
    /\ <<r, 0>> \notin cond
    /\ ~isPaused
    /\ SingleCancelCheck(r, {<<"OnResume", r, 0>>})
    /\ UNCHANGED <<Prefs, Chunks, fileInfo, gateInit, isPaused, origin, files,
                   nextGen, strategy, chunkFileNames, totalCompletedBytes, errorChan,
                   resumeOffset, totalWritten, body, handle, cancelledFrom, joinCause,
                   isStopped, Callbacks, cond, waitPc, mu, disposePc, preSize,
                   reqStart, shortBody, pausedWrites, UDMSettings, probe, monitor,
                   progressAfter>>

\* downloadWithProgress: one Read and the Write of what it returned; io.EOF
\* ends the loop with a nil error, a reset connection with an error.
SingleReadWrite(r) ==
    /\ opc[r] = "ss_loop"
    /\ wpc[r][0] = "read"
    /\ IF body[r][0] # <<>>
       THEN LET j == Head(body[r][0])
            IN  /\ files' = WriteFile(files, <<fileInfo, 0>>, handle[r][0], <<0, j>>)
                /\ handle' = [handle EXCEPT ![r][0].off = @ + 1]
                /\ body' = [body EXCEPT ![r][0] = Tail(@)]
                /\ totalWritten' = [totalWritten EXCEPT ![r][0] = @ + SlotLen(0, j)]
                /\ pausedWrites' = [pausedWrites EXCEPT ![r][0] =
                                        IF isPaused THEN @ + 1 ELSE @]
                /\ wpc' = [wpc EXCEPT ![r][0] = "loop"]
                /\ UNCHANGED <<Status, Error, events, opc, ctxDone>>
       ELSE /\ IF shortBody[r][0] /\ origin.fault = "err"
               THEN SingleStreamFails(r, "read", {})
               ELSE /\ opc' = [opc EXCEPT ![r] = "final"]
                    /\ wpc' = [wpc EXCEPT ![r][0] = "returned"]
                    /\ UNCHANGED <<Status, Error, events, ctxDone>>
            /\ UNCHANGED <<files, handle, body, totalWritten, pausedWrites>>
    /\ UNCHANGED <<Prefs, ServerHeaders, Chunks, fileInfo, gateInit, isPaused, origin,
                   nextGen, strategy, chunkFileNames, totalCompletedBytes, errorChan,
                   resumeOffset, cancelledFrom, joinCause, isStopped, Callbacks, cond,
                   waitPc, mu, disposePc, preSize, reqStart, shortBody, UDMSettings,
                   probe, headerChan, monitor, progressAfter>>

\* ---------------------------------------------------------- specifications
\* One StartDownload() with Pause(), Resume() and Cancel() called at any time.
Next ==
    \/ Pause
    \/ Resume
    \/ Cancel
    \/ StartDownload(1)
    \/ Prefetch(1)
    \/ ExecuteDownloadStrategy(1)
    \/ InitializeMultiStreamDownload(1)
    \/ ExecuteMultiStreamDownload(1)
    \/ JoinWorkers(1)
    \/ MergeChunksToFinalFile(1)
    \/ FinalizeDownload(1)
    \/ InitializeSingleStreamDownload(1)
    \/ ExecuteSingleStreamDownload(1)
    \/ SingleLoopCheck(1)
    \/ concurrentHeaderAnalysis(1)
    \/ SingleWaits(1)
    \/ SingleResumes(1)
    \/ SingleReadWrite(1)
    \/ \E w \in Workers :
          \/ WorkerStart(1, w)
          \/ DownloadSingleChunk(1, w)
          \/ ChunkLoopCheck(1, w)
          \/ ChunkWaits(1, w)
          \/ ChunkResumes(1, w)
          \/ ChunkReadWrite(1, w)

Spec == Init /\ [][Next]_vars

\* The same job under the Go scheduler: a goroutine that can take its next
\* step (the download's own, a chunk worker's) is eventually run.  The calls
\* of the application (Pause, Resume, Cancel) are under no such obligation.
Fairness ==
    /\ WF_vars(StartDownload(1) \/ Prefetch(1) \/ ExecuteDownloadStrategy(1)
                 \/ InitializeMultiStreamDownload(1) \/ ExecuteMultiStreamDownload(1)
                 \/ JoinWorkers(1) \/ MergeChunksToFinalFile(1) \/ FinalizeDownload(1)
                 \/ InitializeSingleStreamDownload(1)
                 \/ ExecuteSingleStreamDownload(1) \/ SingleLoopCheck(1)
                 \/ SingleWaits(1) \/ SingleResumes(1) \/ SingleReadWrite(1))
    /\ \A w \in Workers :
           WF_vars(WorkerStart(1, w) \/ DownloadSingleChunk(1, w) \/ ChunkLoopCheck(1, w)
                     \/ ChunkWaits(1, w) \/ ChunkResumes(1, w) \/ ChunkReadWrite(1, w))

SpecLive == Spec /\ Fairness

\* One StartDownload() against any origin, the ones that cut a body short
\* included, with Pause(), Resume() and Cancel() called at any time.
SpecControl == InitFaults /\ [][Next]_vars

\* A PauseController on its own: Pause() and Resume() called at any time, and
\* goroutines calling WaitIfPaused().
NextGate ==
    \/ PauseController_Pause
    \/ PauseController_Resume
    \/ \E g \in WorkerIds :
          \/ CallWaitIfPaused(g)
          \/ WaitIfPaused(g)

SpecGate == Init /\ [][NextGate]_vars

\* The strategy selection on its own, for any stored server metadata and any
\* thread count of the user (unset and negative included).
StrategySizes ==
    {-1, 0, 1, SmallFilesize, MinSizeForMultiStream - 1, MinSizeForMultiStream,
     MinSizeForMultiStream + 1, 2 * MinSizeForMultiStream,
     100 * 1024 * 1024, 1024 * 1024 * 1024}

InitStrategy ==
    /\ InitJob
    /\ UDMSettings = NilSettings
    /\ ServerHeaders \in [Filesize : StrategySizes, AcceptsRanges : BOOLEAN]
    /\ Prefs \in [threadCount : -1..MaxThreads, maxRetries : {ExampleMaxRetries}]
    /\ origin \in Origins
    /\ origin.fault = "none" /\ origin.reachable /\ origin.reportsSize
    /\ origin.size = SmallFilesize /\ origin.AcceptsRanges
    /\ files = NoFiles

SelectStrategy ==
    /\ strategy[1] = "none"
    /\ strategy' = [strategy EXCEPT
                       ![1] = executeDownloadStrategy(ServerHeaders, Prefs.threadCount)]
    /\ UNCHANGED <<Prefs, ServerHeaders, Chunks, fileInfo, gateInit, isPaused, Status,
                   Error, origin, files, nextGen, opc, ctxDone, chunkFileNames,
                   totalCompletedBytes, errorChan, wpc, resumeOffset, totalWritten,
                   body, handle, events, cancelledFrom, joinCause, isStopped,
                   Callbacks, cond, waitPc, mu, disposePc, preSize, reqStart,
                   shortBody, pausedWrites, UDMSettings, probe, headerChan, monitor,
                   progressAfter>>

SpecStrategy == InitStrategy /\ [][SelectStrategy]_vars

\* The config-driven strategy selection, for any MinimumFileSize of the
\* loaded settings; ApplySettingsToDownloader has made the thread count positive.
ConfiguredSizes ==
    {-1, 0, 1, SmallFilesize, MinSizeForMultiStream, 2 * MinSizeForMultiStream}

InitConfig ==
    /\ InitJob
    /\ UDMSettings \in [loaded : {TRUE}, MinimumFileSize : ConfiguredSizes]
    /\ ServerHeaders \in [Filesize : StrategySizes, AcceptsRanges : BOOLEAN]
    /\ Prefs \in [threadCount : 1..MaxThreads, maxRetries : {ExampleMaxRetries}]
    /\ origin \in Origins
    /\ origin.fault = "none" /\ origin.reachable /\ origin.reportsSize
    /\ origin.size = SmallFilesize /\ origin.AcceptsRanges
    /\ files = NoFiles

SelectStrategyConfig ==
    /\ strategy[1] = "none"
    /\ strategy' = [strategy EXCEPT
                       ![1] = executeDownloadStrategyConfig(UDMSettings, ServerHeaders,
                                                            Prefs.threadCount)]
    /\ UNCHANGED <<Prefs, ServerHeaders, Chunks, fileInfo, gateInit, isPaused, Status,
                   Error, origin, files, nextGen, opc, ctxDone, chunkFileNames,
                   totalCompletedBytes, errorChan, wpc, resumeOffset, totalWritten,
                   body, handle, events, cancelledFrom, joinCause, isStopped,
                   Callbacks, cond, waitPc, mu, disposePc, preSize, reqStart,
                   shortBody, pausedWrites, UDMSettings, probe, headerChan, monitor,
                   progressAfter>>

SpecConfig == InitConfig /\ [][SelectStrategyConfig]_vars

\* One StartDownload() of a multi-stream job over the partial files of an
\* earlier run, left to run undisturbed.
NextResume ==
    \/ StartDownload(1)
    \/ Prefetch(1)
    \/ ExecuteDownloadStrategy(1)
    \/ InitializeMultiStreamDownload(1)
    \/ ExecuteMultiStreamDownload(1)
    \/ JoinWorkers(1)
    \/ MergeChunksToFinalFile(1)
    \/ FinalizeDownload(1)
    \/ \E w \in Workers :
          \/ WorkerStart(1, w)
          \/ DownloadSingleChunk(1, w)
          \/ ChunkLoopCheck(1, w)
          \/ ChunkReadWrite(1, w)

SpecResume == InitResume /\ [][NextResume]_vars

\* The chunk plan of executeMultiStreamDownload on its own: the thread count,
\* DivideChunks and initializeChunks, for a job of any size and thread count.
PlanChunks ==
    /\ Chunks = <<>>
    /\ LET threadCount == getOptimalThreadCount(Prefs.threadCount, ServerHeaders.Filesize)
           chunkSizes == DivideChunks(ServerHeaders.Filesize, threadCount)
       IN  Chunks' = initializeChunks(chunkSizes)
    /\ UNCHANGED <<Prefs, ServerHeaders, fileInfo, gateInit, isPaused, Status, Error,
                   origin, files, nextGen, opc, strategy, ctxDone, chunkFileNames,
                   totalCompletedBytes, errorChan, wpc, resumeOffset, totalWritten,
                   body, handle, events, cancelledFrom, joinCause, isStopped,
                   Callbacks, cond, waitPc, mu, disposePc, preSize, reqStart,
                   shortBody, pausedWrites, UDMSettings, probe, headerChan, monitor,
                   progressAfter>>

SpecChunks == InitChunks /\ [][PlanChunks]_vars

\* ResumeCapabilityExample: StartDownload(), one Cancel() from the example's
\* goroutine and then its second StartDownload(), which does not wait for the
\* first to have returned.
CancelOnce ==
    /\ cancelledFrom = ""
    /\ Cancel

NextRestart ==
    \/ CancelOnce
    \/ \E r \in Runs :
          \/ StartDownload(r)
          \/ Prefetch(r)
          \/ ExecuteDownloadStrategy(r)
          \/ InitializeMultiStreamDownload(r)
          \/ ExecuteMultiStreamDownload(r)
          \/ JoinWorkers(r)
          \/ MergeChunksToFinalFile(r)
          \/ FinalizeDownload(r)
          \/ \E w \in Workers :
                \/ WorkerStart(r, w)
                \/ DownloadSingleChunk(r, w)
                \/ ChunkLoopCheck(r, w)
                \/ ChunkReadWrite(r, w)

SpecRestart == InitRestart /\ [][NextRestart]_vars

\* One StartDownload() against an origin that may cut a body short, with no
\* control call from the application.
NextFaults ==
    \/ StartDownload(1)
    \/ Prefetch(1)
    \/ ExecuteDownloadStrategy(1)
    \/ InitializeMultiStreamDownload(1)
    \/ ExecuteMultiStreamDownload(1)
    \/ JoinWorkers(1)
    \/ MergeChunksToFinalFile(1)
    \/ FinalizeDownload(1)
    \/ InitializeSingleStreamDownload(1)
    \/ ExecuteSingleStreamDownload(1)
    \/ SingleLoopCheck(1)
    \/ concurrentHeaderAnalysis(1)
    \/ SingleReadWrite(1)
    \/ \E w \in Workers :
          \/ WorkerStart(1, w)
          \/ DownloadSingleChunk(1, w)
          \/ ChunkLoopCheck(1, w)
          \/ ChunkReadWrite(1, w)

SpecFaults == InitFaults /\ [][NextFaults]_vars

\* One StartDownload() against any origin, the ones that cut a body short
\* included, with Cancel() called at any time.
NextCancel ==
    \/ Cancel
    \/ NextFaults

SpecCancel == InitFaults /\ [][NextCancel]_vars

\* One StartDownload() against any origin, with StopDownload() and Dispose()
\* called at any time.
NextStop ==
    \/ StopDownload
    \/ Dispose
    \/ NextFaults

SpecStop == InitFaults /\ [][NextStop]_vars

\* ------------------------------------------------------------ single stream
\* A job the strategy sends down the single-stream path.  The output file an
\* earlier, interrupted run left behind may be on disk (pre >= 0: it holds the
\* first pre reads of the resource), under the job's plain file name.
InitSingle ==
    /\ InitJob
    /\ UDMSettings = NilSettings
    /\ ServerHeaders = NoHeaders
    /\ Prefs \in [threadCount : 1..MaxThreads, maxRetries : {ExampleMaxRetries}]
    /\ origin \in Origins \cup OriginsIgnoringRange
    /\ origin.reachable
    /\ origin.fault = "none"
    /\ executeDownloadStrategy(ProbedHeaders, Prefs.threadCount) = "single"
    /\ \E pre \in -1..ReadsPerChunk :
          files = [n \in Names |->
                IF n = <<0, 0>> /\ pre >= 0
                THEN [gen |-> 1, data |-> OriginData(0, 1, pre)]
                ELSE Absent]

\* StartDownload(), one Cancel() and the second StartDownload() of
\* ResumeCapabilityExample, for a single-stream job.
NextSingle ==
    \/ CancelOnce
    \/ \E r \in Runs :
          \/ StartDownload(r)
          \/ Prefetch(r)
          \/ ExecuteDownloadStrategy(r)
          \/ InitializeSingleStreamDownload(r)
          \/ ExecuteSingleStreamDownload(r)
          \/ SingleLoopCheck(r)
          \/ concurrentHeaderAnalysis(r)
          \/ SingleReadWrite(r)
          \/ FinalizeDownload(r)

SpecSingle == InitSingle /\ [][NextSingle]_vars

\* ------------------------------------------------------------ pause and resume
\* TestPauseResumeMultiStream: one multi-stream StartDownload() against an
\* origin that serves every range whole, with Pause() and Resume() called
\* from the test's goroutine.
NextPause ==
    \/ Pause
    \/ Resume
    \/ StartDownload(1)
    \/ Prefetch(1)
    \/ ExecuteDownloadStrategy(1)
    \/ InitializeMultiStreamDownload(1)
    \/ ExecuteMultiStreamDownload(1)
    \/ JoinWorkers(1)
    \/ MergeChunksToFinalFile(1)
    \/ FinalizeDownload(1)
    \/ \E w \in Workers :
          \/ WorkerStart(1, w)
          \/ DownloadSingleChunk(1, w)
          \/ ChunkLoopCheck(1, w)
          \/ ChunkWaits(1, w)
          \/ ChunkResumes(1, w)
          \/ ChunkReadWrite(1, w)

\* The Go scheduler runs every goroutine that can take a step, and the test's
\* goroutine calls Resume() after each of its calls of Pause().
FairnessPause ==
    /\ WF_vars(StartDownload(1) \/ Prefetch(1) \/ ExecuteDownloadStrategy(1)
                 \/ InitializeMultiStreamDownload(1) \/ ExecuteMultiStreamDownload(1)
                 \/ JoinWorkers(1) \/ MergeChunksToFinalFile(1) \/ FinalizeDownload(1))
    /\ \A w \in Workers :
           WF_vars(WorkerStart(1, w) \/ DownloadSingleChunk(1, w) \/ ChunkLoopCheck(1, w)
                     \/ ChunkWaits(1, w) \/ ChunkResumes(1, w) \/ ChunkReadWrite(1, w))
    /\ WF_vars(Resume)

SpecPause == InitRestart /\ [][NextPause]_vars /\ FairnessPause

\* ------------------------------------------------------------ chunk workers
\* A multi-stream job against an origin that advertises ranges and then may
\* cut a body short, fail a read, or answer the ranged requests with 200.
InitWorkers ==
    /\ InitJob
    /\ UDMSettings = NilSettings
    /\ ServerHeaders = NoHeaders
    /\ Prefs \in [threadCount : 2..MaxThreads, maxRetries : {ExampleMaxRetries}]
    /\ origin \in Origins \cup OriginsIgnoringRange
    /\ origin.size >= MinSizeForMultiStream
    /\ origin.reportsSize /\ origin.AcceptsRanges /\ origin.reachable
    /\ origin.fault # "none" =>
          origin.faultChunk \in 1..getOptimalThreadCount(Prefs.threadCount, origin.size)
    /\ files = NoFiles

NextWorkers ==
    \/ StartDownload(1)
    \/ Prefetch(1)
    \/ ExecuteDownloadStrategy(1)
    \/ InitializeMultiStreamDownload(1)
    \/ ExecuteMultiStreamDownload(1)
    \/ JoinWorkers(1)
    \/ MergeChunksToFinalFile(1)
    \/ FinalizeDownload(1)
    \/ \E w \in Workers :
          \/ WorkerStart(1, w)
          \/ DownloadSingleChunk(1, w)
          \/ ChunkLoopCheck(1, w)
          \/ ChunkReadWrite(1, w)

SpecWorkers == InitWorkers /\ [][NextWorkers]_vars

\* The same job with StopDownload() called by the application at any time.
NextWorkersStop ==
    \/ StopDownloadBy("app")
    \/ NextWorkers

SpecWorkersStop == InitWorkers /\ [][NextWorkersStop]_vars

\* ------------------------------------------------------------ the probe alone
\* GetServerData is entered: attempt := 1.  The URL is one http.NewRequest
\* accepts or one it refuses, for every attempt alike.
GetServerData_Call ==
    /\ probe.pc = "idle"
    /\ \E valid \in BOOLEAN :
         probe' = [ProbeIdle EXCEPT !.pc = "attempt", !.attempt = 1, !.urlValid = valid]
    /\ UNCHANGED <<Prefs, ServerHeaders, Chunks, fileInfo, gateInit, isPaused, Status,
                   Error, origin, files, nextGen, opc, strategy, ctxDone,
                   chunkFileNames, totalCompletedBytes, errorChan, wpc, resumeOffset,
                   totalWritten, body, handle, events, cancelledFrom, joinCause,
                   isStopped, Callbacks, cond, waitPc, mu, disposePc, preSize,
                   reqStart, shortBody, pausedWrites, UDMSettings, headerChan,
                   monitor, progressAfter>>

\* One turn of the loop of GetServerData: tryGetServerData, `if err == nil
\* { return data, nil }`, lastErr = err, the sleep and attempt++ while
\* attempt < maxRetries, and after the last turn the wrapped error.
GetServerData_Attempt ==
    /\ probe.pc = "attempt"
    /\ \E o \in ProbeOutcomes :
         /\ (o.kind = "request") <=> ~probe.urlValid
         /\ LET res  == tryGetServerData(o)
                seen == Append(probe.seen, o)
            IN  probe' =
                  IF res.err = NilErr
                  THEN [probe EXCEPT !.pc = "returned", !.data = res.data,
                                     !.err = NilErr, !.seen = seen]
                  ELSE IF probe.attempt < maxRetries
                  THEN [probe EXCEPT !.attempt = @ + 1, !.lastErr = res.err,
                                     !.seen = seen]
                  ELSE [probe EXCEPT !.pc = "returned", !.data = FALSE,
                                     !.lastErr = res.err, !.seen = seen,
                                     !.err = FailedAfter(maxRetries, res.err)]
    /\ UNCHANGED <<Prefs, ServerHeaders, Chunks, fileInfo, gateInit, isPaused, Status,
                   Error, origin, files, nextGen, opc, strategy, ctxDone,
                   chunkFileNames, totalCompletedBytes, errorChan, wpc, resumeOffset,
                   totalWritten, body, handle, events, cancelledFrom, joinCause,
                   isStopped, Callbacks, cond, waitPc, mu, disposePc, preSize,
                   reqStart, shortBody, pausedWrites, UDMSettings, headerChan,
                   monitor, progressAfter>>

NextProbe ==
    \/ GetServerData_Call
    \/ GetServerData_Attempt

SpecProbe == Init /\ [][NextProbe]_vars

\* ------------------------------------------------------------- properties
RECURSIVE SumSizes(_, _)
SumSizes(chunks, n) == IF n = 0 THEN 0 ELSE chunks[n].Size + SumSizes(chunks, n - 1)

\* C2: for a thread count k >= 1 and a file size N >= k the planned chunks
\* are exactly k, their sizes sum to N, the first starts at byte 0, each ends
\* one byte before the next starts, each End is Start + Size - 1 and the
\* last ends at byte N - 1.
C2_ChunksTileTheFile ==
    Chunks # <<>> =>
        LET k == Prefs.threadCount
            N == ServerHeaders.Filesize
        IN  /\ Len(Chunks) = k
            /\ SumSizes(Chunks, k) = N
            /\ Chunks[1].Start = 0
            /\ \A i \in 1..(k - 1) : Chunks[i].End + 1 = Chunks[i + 1].Start
            /\ \A i \in 1..k : Chunks[i].End = Chunks[i].Start + Chunks[i].Size - 1
            /\ Chunks[k].End = N - 1

\* A plan of three or more chunks for a size the count does not divide.
C2_Witness ==
    /\ Chunks # <<>>
    /\ Len(Chunks) >= 3
    /\ ServerHeaders.Filesize % Prefs.threadCount # 0
    /\ ServerHeaders.Filesize >= Prefs.threadCount

\* The output file of the job and the chunk workers a run has started.
OutputFile == <<fileInfo, 0>>
Started(r) == 1..Len(chunkFileNames[r])

\* C1: a job whose status is completed has its output file on disk, and the
\* file is as long as the size the probe stored whenever that size is known,
\* also when a response body ended early.
C1_CompletedFileIsWhole ==
    Status = DOWNLOAD_COMPLETED =>
        /\ fileInfo # -1
        /\ FileExists(OutputFile)
        /\ ServerHeaders.Filesize > 0 => FileSize(OutputFile) = ServerHeaders.Filesize

\* C3 as stated: while the pause flag set by Pause() is up, no worker and no
\* single-stream loop writes a byte.
C3_NoWriteWhilePaused ==
    \A r \in Runs : \A w \in WorkerIds : pausedWrites[r][w] = 0

\* C3: while the pause flag set by Pause() is up, a worker (or the
\* single-stream loop) writes at most the bytes of the one read it had begun
\* before the flag was set, and nothing after that.
C3_OneReadThenBlocked ==
    \A r \in Runs : \A w \in WorkerIds : pausedWrites[r][w] <= 1

\* Pause() came while a chunk worker was in its read; the worker has written
\* what it read and now waits at the gate.
C3_Witness ==
    /\ isPaused
    /\ \E w \in Workers : pausedWrites[1][w] = 1 /\ wpc[1][w] = "paused"

\* C4: once Cancel() has been called on a running job no chunk worker and no
\* single-stream loop writes a further byte.
C4_NoWriteAfterCancel ==
    [][cancelledFrom = "running" => totalWritten' = totalWritten]_vars

\* C5: a run on which Cancel() was called while it was in_progress or paused
\* is never completed or failed afterwards, and when it has ended its status
\* is stopped and on-stop has been raised.
C5_CancelledRunStops ==
    cancelledFrom = "running" =>
        /\ Status \notin {DOWNLOAD_COMPLETED, DOWNLOAD_FAILED}
        /\ opc[1] = "done" => Status = DOWNLOAD_STOPPED /\ <<"OnStop", 1, 0>> \in events

\* The edges of the job's lifecycle; a job is created in queued.
LifecycleEdges ==
    {<<"", DOWNLOAD_QUEUED>>,
     <<DOWNLOAD_QUEUED, DOWNLOAD_IN_PROGRESS>>,
     <<DOWNLOAD_IN_PROGRESS, DOWNLOAD_PAUSED>>,
     <<DOWNLOAD_PAUSED, DOWNLOAD_IN_PROGRESS>>,
     <<DOWNLOAD_IN_PROGRESS, DOWNLOAD_COMPLETED>>,
     <<DOWNLOAD_IN_PROGRESS, DOWNLOAD_FAILED>>,
     <<DOWNLOAD_IN_PROGRESS, DOWNLOAD_STOPPED>>,
     <<DOWNLOAD_PAUSED, DOWNLOAD_STOPPED>>}

\* C6: the status changes only along the edges of the lifecycle, so a
\* completed, failed or stopped job keeps its status and Pause() and Resume()
\* leave a queued job queued.
C6_StatusFollowsLifecycle ==
    [][Status' # Status => <<Status, Status'>> \in LifecycleEdges]_vars

\* C7: a worker that found a partial file of s bytes, 0 < s < Size, for its
\* chunk requests the range that starts at Start + s, and from then on the
\* file still begins with those s bytes.
C7_PartialFileResumed ==
    \A w \in Workers :
        (preSize[w] > 0 /\ preSize[w] < PlannedSize(w) /\ reqStart[1][w] # -1) =>
            /\ reqStart[1][w] = Chunks[w].Start + preSize[w]
            /\ LET held == SlotsBefore(w, preSize[w])
                   data == files[chunkFileNames[1][w]].data
               IN  /\ Len(data) >= held
                   /\ SubSeq(data, 1, held) = OriginData(w, 1, held)

\* C10: a worker whose response body ended with io.EOF before the expected
\* bytes has not marked its chunk completed, has raised no chunk-finish and
\* has sent an error to the error channel.
C10_ShortBodyFails ==
    \A w \in Workers :
        (origin.fault = "eof" /\ shortBody[1][w] /\ wpc[1][w] = "returned"
                /\ opc[1] = "ms_wait") =>
            /\ ~Chunks[w].IsCompleted
            /\ <<"OnChunkFinish", 1, w>> \notin events
            /\ \E i \in 1..Len(errorChan[1]) : errorChan[1][i].w = w

\* C8: when the run that was cancelled midway and the run started after it
\* have both ended, the job's output file holds exactly the bytes one
\* uninterrupted run writes: every chunk of the origin's resource, in order.
C8_RestartGivesSameBytes ==
    (cancelledFrom = "running" /\ \A r \in Runs : opc[r] = "done") =>
        /\ FileExists(OutputFile)
        /\ files[OutputFile].data =
               OriginChunks(getOptimalThreadCount(Prefs.threadCount, origin.size))

\* The partial files of a run: all on disk, or none.
PartialFilesKept(r) == \A w \in Started(r) : FileExists(chunkFileNames[r][w])
PartialFilesDeleted(r) == \A w \in Started(r) : ~FileExists(chunkFileNames[r][w])

\* C9: when the workers of a run have ended with a failure, its partial files
\* are on disk if the cause is a cancellation and are deleted if the cause is
\* another error, and only then.
C9_PartialFilesKeptIffCancelled ==
    \A r \in Runs :
        /\ joinCause[r] = "cancel" => PartialFilesKept(r)
        /\ joinCause[r] = "error" => PartialFilesDeleted(r)

\* C11: with max_retries = 3, a multi-stream job one of whose chunk bodies
\* the origin cuts off once with a transport error ends completed: the
\* worker makes the chunk's request again instead of reporting the error.
C11_TransientFaultRetried ==
    (Prefs.maxRetries = 3 /\ origin.fault = "err" /\ strategy[1] = "multi"
            /\ opc[1] = "done") =>
        Status = DOWNLOAD_COMPLETED

\* C12: once a worker has reported an error the remaining workers are
\* cancelled: none of them opens its download after that, and none passes
\* the cancellation check of its read loop into a further read.
C12_ErrorStopsOtherWorkers ==
    [][Len(errorChan[1]) > 0 =>
          \A v \in Workers :
              /\ wpc[1][v] = "request" => wpc'[1][v] # "loop"
              /\ wpc[1][v] = "loop" => wpc'[1][v] # "read"]_vars

\* C13: a call of Dispose() is never stuck (the StopDownload it calls can
\* take its step), and once it has returned the context of the run under way
\* is cancelled, Callbacks is nil and the job is marked stopped.
C13_DisposeReturns ==
    /\ disposePc = "StopDownload" => ENABLED StopDownloadBy("Dispose")
    /\ disposePc = "returned" =>
           /\ isStopped
           /\ ~Callbacks
           /\ \A r \in Runs : ContextLive(r) => ctxDone[r]

\* A goroutine is blocked on the pause gate: it is inside checkPauseState,
\* between finding the flag set and leaving the wait loop.
Blocked(w) == wpc[1][w] = "paused"

\* C14: once Resume() has cleared the flag, every goroutine blocked on the
\* pause gate leaves it, unless Pause() is called again first; this holds for
\* the single-stream goroutine and for each of the chunk workers, however
\* many of them are blocked.
C14_ResumeReleasesAll ==
    \A w \in WorkerIds : (Blocked(w) /\ ~isPaused) ~> (~Blocked(w) \/ isPaused)

\* Every planned chunk worker is waiting on the condition variable at once.
C14_Witness ==
    /\ Len(Chunks) = MaxThreads
    /\ \A w \in 1..MaxThreads : <<1, w>> \in cond

\* C15: a call of WaitIfPaused made with the flag clear returns at its first
\* step, without waiting; and every return of WaitIfPaused happens with the
\* flag clear, never with the flag set.
C15_WaitIfPausedGate ==
    [][\A g \in WorkerIds :
          /\ (waitPc[g] = "called" /\ ~isPaused /\ waitPc'[g] # waitPc[g])
                 => waitPc'[g] = "returned"
          /\ (waitPc[g] # "returned" /\ waitPc'[g] = "returned")
                 => (~isPaused /\ ~isPaused')]_vars

\* A caller that waited, was woken by Resume() and has returned, while
\* another one, woken by the same Resume(), waits again after a new Pause().
C15_Witness ==
    /\ isPaused
    /\ \E g, h \in WorkerIds : waitPc[g] = "returned" /\ waitPc[h] = "waiting"

\* C16: the built-in selection takes the multi-stream path exactly when the
\* server accepts ranges, the size is known and at least 10 MiB, and the
\* effective worker count (the user's when set, else the one chosen by size)
\* is above 1; in every other case it takes the single-stream path.
C16_MultiStreamIff ==
    strategy[1] # "none" =>
        /\ strategy[1] \in {"multi", "single"}
        /\ strategy[1] = "multi" <=>
               /\ ServerHeaders.AcceptsRanges
               /\ ServerHeaders.Filesize > 0
               /\ ServerHeaders.Filesize >= 10 * 1024 * 1024
               /\ getOptimalThreadCount(Prefs.threadCount, ServerHeaders.Filesize) > 1

\* The multi-stream path taken with the user's thread count unset, and so
\* with the worker count chosen by size.
C16_Witness ==
    /\ strategy[1] = "multi"
    /\ Prefs.threadCount <= 0

\* C17: whatever MinimumFileSize is configured, a file smaller than 10 MiB
\* is never given the multi-stream path by the config-driven selection.
C17_ConfigKeepsThreshold ==
    strategy[1] = "multi" => ServerHeaders.Filesize >= MinSizeForMultiStream

ChunkCallbacks == {"OnChunkStart", "OnChunkFinish", "OnChunkError"}

\* The callbacks raised by a step.
Raised == events' \ events

\* C18: in a multi-stream run a chunk callback is raised only after on-start
\* and never once on-assemble-start has been raised, and on-finish is raised
\* only after on-assemble-start and on-assemble-finish.
C18_CallbackOrder ==
    [][strategy[1] = "multi" =>
          /\ (\E e \in Raised : e[1] \in ChunkCallbacks) =>
                 /\ <<"OnStart", 1, 0>> \in events
                 /\ <<"OnAssembleStart", 1, 0>> \notin events'
          /\ (\E e \in Raised : e[1] \in {"OnAssembleStart", "OnAssembleFinish"}) =>
                 /\ <<"OnStart", 1, 0>> \in events
                 /\ <<"OnFinish", 1, 0>> \notin events
          /\ <<"OnFinish", 1, 0>> \in Raised =>
                 {<<"OnAssembleStart", 1, 0>>, <<"OnAssembleFinish", 1, 0>>}
                     \subseteq events]_vars

\* A multi-stream run of MaxThreads chunks that raised every callback of the
\* sequence, on-finish included.
C18_Witness ==
    /\ strategy[1] = "multi"
    /\ Len(Chunks) = MaxThreads
    /\ \A w \in Workers : {<<"OnChunkStart", 1, w>>, <<"OnChunkFinish", 1, w>>}
                              \subseteq events
    /\ {<<"OnStart", 1, 0>>, <<"OnAssembleStart", 1, 0>>, <<"OnAssembleFinish", 1, 0>>,
        <<"OnFinish", 1, 0>>} \subseteq events

\* The step on which the run ends: StartDownload returns.
RunEnds == opc[1] # "done" /\ opc'[1] = "done"

RECURSIVE ConcatData(_, _, _)
ConcatData(fs, names, k) ==
    IF k = 0 THEN <<>> ELSE ConcatData(fs, names, k - 1) \o fs[names[k]].data

\* C20: the step that assembles the output leaves in it the contents the
\* partial files had, whole and once each, in increasing chunk order, and
\* has removed every partial file.
C20_AssemblyConcatenates ==
    [][(opc[1] = "ms_merge" /\ opc'[1] = "final") =>
          LET names == chunkFileNames[1]
          IN  /\ files'[<<fileInfo, 0>>].data = ConcatData(files, names, Len(names))
              /\ \A i \in 1..Len(names) : files'[names[i]] = Absent]_vars

\* An assembled output of MaxThreads chunks that starts with a piece of the
\* first chunk and ends with a piece of the last one.
C20_Witness ==
    /\ opc[1] = "final"
    /\ Len(chunkFileNames[1]) = MaxThreads
    /\ LET data == files[<<fileInfo, 0>>].data
       IN  /\ Len(data) >= MaxThreads
           /\ data[1][1] = 1
           /\ data[Len(data)][1] = MaxThreads

\* C21: in a multi-stream run no step lowers the aggregate byte counter, and
\* the counter never exceeds the file size the server reported.
C21_CounterMonotoneBounded ==
    [][strategy'[1] = "multi" =>
          /\ totalCompletedBytes'[1] >= totalCompletedBytes[1]
          /\ totalCompletedBytes'[1] <= ServerHeaders'.Filesize]_vars

\* A run over partial files left by an earlier run whose workers have
\* counted every byte of the file.
C21_Witness ==
    /\ strategy[1] = "multi"
    /\ \E c \in Workers : preSize[c] > 0
    /\ totalCompletedBytes[1] = ServerHeaders.Filesize
    /\ ServerHeaders.Filesize > 0

C23_DataOrError ==
    probe.pc = "returned" =>
        /\ probe.data <=> probe.err = NilErr
        /\ LET o == probe.seen[Len(probe.seen)]
           IN  (o.kind = "response" /\ o.status >= 400) => probe.err # NilErr

\* ------------------------------------------------------------ C24
\* C24: the probe makes at most 3 attempts; it goes on to a further attempt
\* only after an attempt that failed with a transport error and never after
\* a response with status 4xx/5xx; after 3 failed attempts it returns an
\* error that states the count 3; a successful attempt ends it at once.
C24_RetryOnlyTransport ==
    [][probe.pc = "attempt" =>
          LET o == probe'.seen[Len(probe'.seen)]
          IN  /\ Len(probe'.seen) <= 3
              /\ probe'.pc = "attempt" => o.kind = "transport"
              /\ (o.kind = "response" /\ o.status >= 400) => probe'.pc = "returned"
              /\ (Len(probe'.seen) = 3 /\ tryGetServerData(o).err # NilErr) =>
                    /\ probe'.pc = "returned"
                    /\ probe'.err.kind = "failed"
                    /\ probe'.err.attempts = 3
              /\ (o.kind = "response" /\ o.status < 400) =>
                    /\ probe'.pc = "returned"
                    /\ probe'.data
                    /\ probe'.err = NilErr]_vars

\* ------------------------------------------------------------ C25
\* C25: on the single-stream path, when the request carried a Range header
\* with an offset above 0 and the server answered 200 with the whole body,
\* the run ends in an error and writes no byte of that body to the output file.
C25_FullBodyOnRangeRefused ==
    \A r \in Runs :
        (strategy[r] = "single" /\ reqStart[r][0] > 0 /\ origin.fullOnRange) =>
            /\ totalWritten[r][0] = 0
            /\ wpc[r][0] = "returned" => <<"OnError", r, 0>> \in events

\* ------------------------------------------------------------ C26
\* C26: a single-stream run of a job whose output file from an earlier
\* interrupted run is on disk with size s > 0, the server accepting ranges,
\* resumes at offset s (the request starts at byte s, the file is opened for
\* append); when there is no such file or no range support, the offset is 0.
EarlierOutput == files[<<0, 0>>]
C26_SingleStreamResumes ==
    (opc[2] = "idle" /\ strategy[1] = "single" /\ reqStart[1][0] # -1) =>
        LET s == Bytes(EarlierOutput.data)
        IN  IF EarlierOutput.gen = 1 /\ s > 0 /\ ServerHeaders.AcceptsRanges
            THEN /\ resumeOffset[1][0] = s
                 /\ reqStart[1][0] = s
                 /\ handle[1][0].append
            ELSE resumeOffset[1][0] = 0

\* ------------------------------------------------------------ C27
\* A chunk worker between openChunkFile and its return: it holds the partial
\* file open for writing.
Writes(r, w) == wpc[r][w] \in {"loop", "paused", "read"}

\* C27: no two goroutines write to the same partial file at any time, and the
\* final file changes only in the assembly step and only when every chunk
\* worker has returned, also when StartDownload() is called a second time
\* while the workers of the cancelled first run are alive.
SingleWriter ==
    \A r1, r2 \in Runs : \A w1, w2 \in Workers :
        (Writes(r1, w1) /\ Writes(r2, w2) /\ <<r1, w1>> # <<r2, w2>>) =>
            chunkFileNames[r1][w1] # chunkFileNames[r2][w2]
C27_SingleWriterAssemblyLast ==
    [][/\ SingleWriter'
       /\ \A u \in Variants :
            files'[<<u, 0>>] # files[<<u, 0>>] =>
                /\ \E r \in Runs : opc[r] = "ms_merge"
                /\ \A r \in Runs : \A w \in Workers :
                      wpc[r][w] \in {"idle", "returned"}]_vars

\* ------------------------------------------------------------ C28
\* The run has ended completed: every chunk is marked complete and on-finish
\* has been raised.
Completed ==
    /\ opc[1] = "done"
    /\ Status = DOWNLOAD_COMPLETED
    /\ Chunks # <<>>
    /\ \A i \in 1..Len(Chunks) : Chunks[i].IsCompleted
    /\ <<"OnFinish", 1, 0>> \in events

\* C28: a multi-stream download against a well-behaved origin that is paused
\* only finitely often, each Pause() being followed by a Resume(), eventually
\* is completed with every chunk marked complete; on-finish is raised once,
\* by the step that ends the run, and by no step before or after it.
C28_PausedDownloadCompletes ==
    /\ (<>[][~Pause]_vars) => <>Completed
    /\ [][(<<"OnFinish", 1, 0>> \in Raised) => (opc[1] = "final" /\ opc'[1] = "done")]_vars
    /\ [](opc[1] = "done" => <<"OnFinish", 1, 0>> \in events)

\* The run is completed after its workers have waited at the closed gate.
C28_Witness ==
    /\ Completed
    /\ \E w \in Workers : <<"OnResume", 1, w>> \in events

\* ------------------------------------------------------------ C29
\* The byte range of the origin's resource a piece holds: chunk c (0: the
\* whole resource) starts where the chunks before it end.  A gap holds no
\* byte of the resource.
RECURSIVE ChunkBase(_)
ChunkBase(c) == IF c <= 1 THEN 0 ELSE ChunkBase(c - 1) + PlannedSize(c - 1)
ByteRange(piece) ==
    IF piece[2] < 0 THEN [from |-> -1, to |-> -1]
    ELSE [from |-> ChunkBase(piece[1]) + PrefixLen(piece[1], piece[2] - 1),
          to   |-> ChunkBase(piece[1]) + PrefixLen(piece[1], piece[2])]

\* The bytes of a file as ranges of the origin's resource, adjoining ranges
\* joined: two files hold the same bytes exactly if these are equal.
RECURSIVE Extents(_)
Extents(data) ==
    IF data = <<>> THEN <<>>
    ELSE LET before == Extents(SubSeq(data, 1, Len(data) - 1))
             range  == ByteRange(data[Len(data)])
         IN  IF before # <<>> /\ range.from >= 0 /\ before[Len(before)].to = range.from
             THEN [before EXCEPT ![Len(before)].to = range.to]
             ELSE Append(before, range)

\* C29: against a range-capable origin that serves every body whole, a run
\* that ends completed leaves the same bytes in the final file on the
\* single-stream path (one worker) and on the multi-stream path with k > 1
\* workers: on either path, bytes 0 .. size - 1 of the resource, once, in order.
C29_SameBytesOnBothPaths ==
    (origin.AcceptsRanges /\ opc[1] = "done" /\ <<"OnFinish", 1, 0>> \in events) =>
        /\ strategy[1] \in {"single", "multi"}
        /\ FileExists(<<fileInfo, 0>>)
        /\ Extents(files[<<fileInfo, 0>>].data) = <<[from |-> 0, to |-> origin.size]>>

\* A completed multi-stream run with the highest worker count, whose final
\* file is made of more pieces than a single-stream body has.
C29_Witness ==
    /\ origin.AcceptsRanges
    /\ opc[1] = "done"
    /\ <<"OnFinish", 1, 0>> \in events
    /\ strategy[1] = "multi"
    /\ Len(Chunks) = MaxThreads
    /\ Len(files[<<fileInfo, 0>>].data) = MaxThreads * ReadsPerChunk

\* ------------------------------------------------------------ C30
\* The errors worker w of run r has sent on the run's error channel.
SentBy(r, w) == {i \in 1..Len(errorChan[r]) : errorChan[r][i].w = w}

\* C30: a chunk worker that has ended with an error, whatever its cause, has
\* raised chunk-error for its chunk and has sent exactly one error on the
\* error channel; a worker that has ended without error has raised
\* chunk-finish, no chunk-error, and has sent nothing.
C30_ChunkErrorRaisedAndSent ==
    \A r \in Runs : \A w \in Workers :
        (Callbacks /\ opc[r] = "ms_wait" /\ wpc[r][w] = "returned") =>
            IF SentBy(r, w) # {} \/ ~Chunks[w].IsCompleted
            THEN /\ Cardinality(SentBy(r, w)) = 1
                 /\ <<"OnChunkError", r, w>> \in events
                 /\ <<"OnChunkFinish", r, w>> \notin events
            ELSE /\ <<"OnChunkFinish", r, w>> \in events
                 /\ <<"OnChunkError", r, w>> \notin events

\* ------------------------------------------------------------ C31
\* C31: a worker that finds its partial file at least as long as its chunk
\* ends at once: it adds the chunk's whole size to the aggregate counter,
\* marks the chunk completed and raises chunk-finish; it raises no
\* chunk-start, makes no request, sends no error and leaves every file as
\* it is.
C31_CompleteChunkSkipped ==
    [][\A r \in Runs : \A w \in Workers :
          (/\ wpc[r][w] = "detect"
           /\ wpc'[r][w] # "detect"
           /\ FileExists(chunkFileNames[r][w])
           /\ FileSize(chunkFileNames[r][w]) >= Chunks[w].Size) =>
              /\ wpc'[r][w] = "returned"
              /\ totalCompletedBytes'[r] = totalCompletedBytes[r] + Chunks[w].Size
              /\ Chunks'[w].IsCompleted
              /\ <<"OnChunkFinish", r, w>> \in events'
              /\ <<"OnChunkStart", r, w>> \notin events'
              /\ reqStart'[r][w] = -1
              /\ errorChan' = errorChan
              /\ files' = files]_vars

\* A worker has ended on a partial file that held its whole chunk, without
\* a request.
C31_Witness ==
    \E r \in Runs : \E w \in Workers :
        /\ wpc[r][w] = "returned"
        /\ reqStart[r][w] = -1
        /\ <<"OnChunkFinish", r, w>> \in events
        /\ <<"OnChunkStart", r, w>> \notin events
        /\ totalCompletedBytes[r] >= Chunks[w].Size

\* ------------------------------------------------------------ C32
\* What holds of the error channel and of the step in which the
\* orchestrator's wait for the workers of run r returns.
ChannelAndWait(r) ==
    /\ \A w \in Workers : Cardinality(SentBy(r, w)) <= 1
    /\ Len(errorChan[r]) <= Len(chunkFileNames[r])
    /\ (opc[r] = "ms_wait" /\ \A w \in 1..Len(chunkFileNames[r]) : wpc[r][w] = "returned")
          => ENABLED JoinWorkers(r)
WaitReturns(r) == opc[r] = "ms_wait" /\ opc'[r] # "ms_wait"

C33_OrchestratorOwnsStatus ==
    [][/\ Status' # Status => \E r \in Runs : opc'[r] # opc[r]
       /\ (\A r \in Runs : opc[r] \in {"idle", "done"} /\ opc'[r] = opc[r])
             => Status' = Status]_vars

\* C34: once Prefetch has stored the probe result, no later step of the run
\* modifies the job's server metadata.
C34_HeadersFrozenAfterPrefetch ==
    [][opc[1] \notin {"idle", "prefetch"} => ServerHeaders' = ServerHeaders]_vars

\* C39: in the single-stream loop, once the context is cancelled the next
\* cancellation check returns the cancellation error, with no further read or
\* write, also when the header-analysis channel is closed and ready in the
\* same select.
C39_CancelledLoopReturns ==
    [][\A r \in Runs :
          (/\ opc[r] = "ss_loop" /\ ctxDone[r]
           /\ wpc[r][0] = "loop" /\ ~isPaused
           /\ wpc'[r][0] # "loop") =>
              /\ wpc'[r][0] = "returned"
              /\ Status' = DOWNLOAD_STOPPED
              /\ files' = files]_vars

\* ------------------------------------------------ cancellation at the gate
\* The paused multi-stream job with StopDownload() called by the application
\* at any time.
NextPauseStop ==
    \/ StopDownloadBy("app")
    \/ NextPause

\* The Go scheduler runs every goroutine that can take a step; the application
\* is not obliged to call Resume().
FairnessPauseStop ==
    /\ WF_vars(StartDownload(1) \/ Prefetch(1) \/ ExecuteDownloadStrategy(1)
                 \/ InitializeMultiStreamDownload(1) \/ ExecuteMultiStreamDownload(1)
                 \/ JoinWorkers(1) \/ MergeChunksToFinalFile(1) \/ FinalizeDownload(1))
    /\ \A w \in Workers :
           WF_vars(WorkerStart(1, w) \/ DownloadSingleChunk(1, w) \/ ChunkLoopCheck(1, w)
                     \/ ChunkWaits(1, w) \/ ChunkResumes(1, w) \/ ChunkReadWrite(1, w))

SpecPauseStop == InitRestart /\ [][NextPauseStop]_vars /\ FairnessPauseStop

\* C35: when the context is cancelled while workers are blocked on the pause
\* gate, every blocked worker eventually terminates, and the orchestrator's
\* wait returns.
C35_BlockedWorkersObserveCancel ==
    /\ \A w \in Workers :
           (ctxDone[1] /\ <<1, w>> \in cond) ~> (wpc[1][w] = "returned")
    /\ (ctxDone[1] /\ opc[1] = "ms_wait" /\ \E w \in Workers : <<1, w>> \in cond)
           ~> (opc[1] = "done")

\* ------------------------------------------------- one Pause, one Resume
\* The paused multi-stream job; the application calls Pause() no more once a
\* worker has met the closed gate, so that every on-pause and on-resume of a
\* behaviour belongs to one Pause() and the Resume() that follows it.
NextOnePause ==
    \/ Pause /\ \A e \in events : e[1] # "OnPause"
    \/ Resume
    \/ StartDownload(1)
    \/ Prefetch(1)
    \/ ExecuteDownloadStrategy(1)
    \/ InitializeMultiStreamDownload(1)
    \/ ExecuteMultiStreamDownload(1)
    \/ JoinWorkers(1)
    \/ MergeChunksToFinalFile(1)
    \/ FinalizeDownload(1)
    \/ \E w \in Workers :
          \/ WorkerStart(1, w)
          \/ DownloadSingleChunk(1, w)
          \/ ChunkLoopCheck(1, w)
          \/ ChunkWaits(1, w)
          \/ ChunkResumes(1, w)
          \/ ChunkReadWrite(1, w)

SpecOnePause == InitRestart /\ [][NextOnePause]_vars

\* The calls of a callback a run has made, one per goroutine that made it.
CallsOf(name, r) == {e \in events : e[1] = name /\ e[2] = r}

\* C36: for one Pause() followed by one Resume() with k workers, on-pause is
\* raised once and on-resume once, not once per worker, and on-resume never
\* without an on-pause before it.
C36_OncePerPause ==
    \A r \in Runs :
        /\ Cardinality(CallsOf("OnPause", r)) <= 1
        /\ Cardinality(CallsOf("OnResume", r)) <= 1
        /\ CallsOf("OnResume", r) # {} => CallsOf("OnPause", r) # {}

\* -------------------------------------------------------------- the sampler
\* monitorMultiStreamProgress, started by downloadChunksConcurrently once the
\* workers are started: a select on ctx.Done() and the ticker.  A tick a
\* second after the last report calls on-progress; with the context cancelled
\* the select returns, or takes a tick that is ready as well.
monitorMultiStreamProgress(r) ==
    /\ monitor[r] = "running"
    /\ \E case \in (IF ctxDone[r] THEN {"ctx", "tick"} ELSE {"tick"}) :
          IF case = "ctx"
          THEN /\ monitor' = [monitor EXCEPT ![r] = "returned"]
               /\ UNCHANGED progressAfter
          ELSE /\ progressAfter' = [progressAfter EXCEPT ![r] =
                       IF Callbacks
                       THEN @ \cup {e[1] : e \in {x \in events : x[2] = r}}
                       ELSE @]
               /\ UNCHANGED monitor
    /\ UNCHANGED <<Prefs, ServerHeaders, Chunks, fileInfo, gateInit, isPaused, Status,
                   Error, origin, files, nextGen, opc, strategy, ctxDone,
                   chunkFileNames, totalCompletedBytes, errorChan, wpc, resumeOffset,
                   totalWritten, body, handle, events, cancelledFrom, joinCause,
                   isStopped, Callbacks, cond, waitPc, mu, disposePc, preSize,
                   reqStart, shortBody, pausedWrites, UDMSettings, probe, headerChan>>

\* The multi-stream job of SpecWorkersStop with its sampler.
NextSampler ==
    \/ monitorMultiStreamProgress(1)
    \/ NextWorkersStop

\* The Go scheduler runs every goroutine that can take a step.
FairnessSampler ==
    /\ WF_vars(monitorMultiStreamProgress(1) /\ monitor'[1] = "returned")
    /\ WF_vars(NextWorkers)

SpecSampler == InitWorkers /\ [][NextSampler]_vars /\ FairnessSampler

\* C37: the sampler raises no on-progress once assembly has started or after
\* on-finish, on-error or on-stop, and it terminates after the orchestrator
\* has returned.
C37_SamplerQuietAfterAssembly ==
    /\ [](\A r \in Runs :
             progressAfter[r] \cap {"OnAssembleStart", "OnFinish", "OnError", "OnStop"} = {})
    /\ \A r \in Runs : (opc[r] = "done" /\ monitor[r] = "running") ~> (monitor[r] = "returned")

\* The sum of the sizes of the first n partial files of a run.
RECURSIVE SumFileSizes(_, _)
SumFileSizes(names, n) ==
    IF n = 0 THEN 0
    ELSE (IF FileExists(names[n]) THEN FileSize(names[n]) ELSE 0)
             + SumFileSizes(names, n - 1)

\* C38: when a multi-stream run reaches assembly, all workers having returned
\* without error, the aggregate counter equals ServerHeaders.Filesize and the
\* sum of the sizes of the partial files.
C38_CounterEqualsSizeAtAssembly ==
    \A r \in Runs :
        opc[r] = "ms_merge" =>
            /\ totalCompletedBytes[r] = ServerHeaders.Filesize
            /\ totalCompletedBytes[r] = SumFileSizes(chunkFileNames[r], Len(chunkFileNames[r]))

====
